---- MODULE Spec2Model ----
(***************************************************************************)
(* Model of mcpjungle's OAuth 2.1 issuer (authorization codes, access and  *)
(* refresh tokens, revocation, introspection, expiry sweep) and of the     *)
(* MCP-client access-control resolver.                                     *)
(*                                                                         *)
(* Conventions.                                                            *)
(*  - The database is a reliable store: a gorm call returns an error only  *)
(*    where the source makes one (record not found on First).  An UPDATE   *)
(*    or DELETE whose WHERE clause matches no row succeeds with zero rows  *)
(*    affected and Error = nil.                                            *)
(*  - Rows of models that carry gorm.DeletedAt (access and refresh tokens) *)
(*    are soft-deleted: Delete sets the tombstone and every later query    *)
(*    and update skips the row.  Authorization codes carry no DeletedAt    *)
(*    and are removed.                                                     *)
(*  - A random value (code, token) is the pair <<kind, id>> of the row it  *)
(*    was generated for; Empty is the empty string, Unknown a value that   *)
(*    was never issued.                                                    *)
(*  - A scope string is the sequence of its space-separated names.         *)
(*  - Time is counted in units of 10 minutes.                              *)
(***************************************************************************)
EXTENDS Integers, Sequences, FiniteSets, TLC

\* ----- bounds of the model
MaxCodes == 1          \* authorization codes ever created
MaxAccess == 2         \* access tokens ever created
MaxRefresh == 2        \* refresh tokens ever created
NumProcs == 2          \* authorization-code exchanges in flight at once
MaxTicks == 2          \* advances of the clock
MaxAllowedGroups == 2  \* group names in a client's allowed_tool_groups
MaxClock == 8          \* minutes the upstream client's clock advances
MaxAudit == 2          \* audit entries emitted
MaxClients == 2        \* MCP clients ever created
MaxTools == 26         \* rows of table tools
MaxIssued == 3         \* refresh requests the upstream authorization server answers

\* ----- program constants (units of 10 minutes)
CodeTTL == 1       \* 10 * time.Minute
AccessTTL == 6     \* 1 * time.Hour
RefreshTTL == 4320 \* 30 * 24 * time.Hour
\* model/oauth_upstream_session.go (minutes)
FiveMinutes == 5   \* 5 * time.Minute

Empty == <<"", 0>>
Unknown == <<"unknown", 0>>
NoUser == 0
NoRefresh == 0
Procs == 1..NumProcs

Range(s) == {s[i] : i \in DOMAIN s}

VARIABLES
    now,            \* time.Now()
    authCodes,      \* table oauth_authorization_codes: set of rows
    codeSeq,        \* authorization codes created so far
    accessTokens,   \* table oauth_access_tokens: row i has ID i
    refreshTokens,  \* table oauth_refresh_tokens: row i has ID i
    reqs,           \* per request slot: an authorization_code grant in flight
    grants,         \* per code id: number of 200 responses of the authorization_code grant
    last,           \* the response being sent, NoResponse once it has left
    ticks,          \* the number of times the clock has advanced
    profile         \* the inputs the environment draws from (fixed in a behaviour)

issuerVars == <<now, authCodes, codeSeq, accessTokens, refreshTokens, reqs, grants, last, profile, ticks>>

\* the access-control resolver
VARIABLES
    mcpClient,      \* the McpClient whose access is checked
    toolGroups,     \* table tool_groups: set of rows
    brokenServers,  \* the servers for which ListToolsByServer returns an error
    verdict         \* the last call of the resolver and what it returned

aclVars == <<mcpClient, toolGroups, brokenServers, verdict>>

\* the stores of the API server
VARIABLES
    users,          \* table users: set of rows
    oauthClients,   \* table oauth_clients: set of rows
    clientTable,    \* table mcp_clients: set of rows
    clientSeq,      \* access tokens generated for MCP clients so far
    toolTable,      \* table tools: sequence of rows, in the order the database returns them
    auditLogs,      \* table audit_logs: the rows in the order written
    auditQueue,     \* the rows handed to logAsync whose write has not run yet
    outcome         \* the last call of a service operation and what it returned

gateVars == <<users, oauthClients, clientTable, clientSeq, toolTable, auditLogs, auditQueue, outcome>>

\* the OAuth client towards upstream MCP servers
VARIABLES
    session,        \* table oauth_upstream_sessions: the row of the one server, or NoSession
    clock,          \* time.Now() as OAuthClientService reads it, in minutes
    upstream        \* the last call of GetOrRefreshUpstreamToken and what it returned

\* the same client with its calls taken one database or HTTP operation at a time
VARIABLES
    sessionTable,   \* table oauth_upstream_sessions: set of rows with their ID
    calls,          \* per goroutine: the call it is in, where it is and its local session
    authServer      \* the upstream authorization server: tokens issued, refresh token in force

raceVars == <<sessionTable, calls, authServer>>

upstreamVars == <<session, clock, upstream, raceVars>>

vars == <<issuerVars, aclVars, gateVars, upstreamVars>>

\* ----- util/oauth.go
\* base64url(sha256(verifier)): an injective image of the verifier
GeneratePKCEChallenge(verifier) == <<"S256", verifier>>

\* a string handed in as a challenge as it is
Verbatim(str) == <<"", str>>

\* a verification that also takes the "plain" method of RFC 7636
VerifyPKCEPlain(verifier, challenge, method) ==
    IF method = "plain" THEN challenge = Verbatim(verifier)
    ELSE IF method # "S256" THEN FALSE
    ELSE GeneratePKCEChallenge(verifier) = challenge

VerifyPKCE(verifier, challenge, method) ==
    IF method # "S256" THEN FALSE
    ELSE GeneratePKCEChallenge(verifier) = challenge

\* bcrypt.GenerateFromPassword / CompareHashAndPassword
Bcrypt(secret) == <<"bcrypt", secret>>

\* ----- OAuthService.RegisterClient: the stored row
RegisterClient(clientID, clientSecret, clientName, redirectURIs, scopes, isConfidential) ==
    [ClientID |-> clientID,
     ClientSecret |-> IF isConfidential THEN Bcrypt(clientSecret) ELSE Empty,
     ClientName |-> clientName,
     RedirectURIs |-> redirectURIs,
     Scopes |-> scopes,
     IsConfidential |-> isConfidential,
     TokenEndpointAuthMethod |-> "client_secret_basic"]

\* The registered clients: a confidential one with a configured scope set and
\* a public one with none.
OAuthClients ==
    {RegisterClient("c1", "s1", "app1", <<"https://a/cb">>, <<"read", "write">>, TRUE),
     RegisterClient("c2", "", "app2", <<"https://b/cb">>, <<>>, FALSE)}

GetClient(clientID) ==
    IF \E c \in oauthClients : c.ClientID = clientID
    THEN CHOOSE c \in oauthClients : c.ClientID = clientID
    ELSE [ClientID |-> ""]

\* ValidateClientCredentials: TRUE when it returns the client, FALSE on error
ValidateClientCredentials(clientID, clientSecret) ==
    LET client == GetClient(clientID) IN
    IF client.ClientID = "" THEN FALSE
    ELSE IF client.IsConfidential
         THEN client.ClientSecret = Bcrypt(clientSecret)
         ELSE TRUE

ValidateRedirectURIAny(client, redirectURI) == TRUE

ValidateRedirectURI(client, redirectURI) ==
    \E i \in DOMAIN client.RedirectURIs : client.RedirectURIs[i] = redirectURI

ValidateScopesNoCheck(client, requestedScopes) ==
    [ok |-> TRUE, scope |-> requestedScopes]

\* ValidateScopes: ok = FALSE is the error "scope not allowed: <s>"
ValidateScopes(client, requestedScopes) ==
    IF Len(client.Scopes) = 0
    THEN [ok |-> TRUE, scope |-> requestedScopes]
    ELSE IF \E i \in DOMAIN requestedScopes : requestedScopes[i] \notin Range(client.Scopes)
         THEN [ok |-> FALSE, scope |-> <<>>]
         ELSE [ok |-> TRUE, scope |-> requestedScopes]

CodeValue(i) == <<"code", i>>
AccessValue(i) == <<"at", i>>
RefreshValue(i) == <<"rt", i>>

\* ----- model/oauth_authorization_code.go, model/oauth_token.go
CodeIsExpired(c) == now > c.ExpiresAt
CodeIsValidIgnoreExpiry(c) == ~c.Used

CodeIsValid(c) == ~c.Used /\ ~CodeIsExpired(c)

TokenIsExpired(t) == now > t.ExpiresAt
TokenIsValidIgnoreRevoked(t) == ~TokenIsExpired(t)
TokenIsValid(t) == ~t.Revoked /\ ~TokenIsExpired(t)

\* "scopes": requests vary their scope parameter and the clock stands still;
\* "clock": time passes and requests omit the scope parameter;
\* "audience" (the authentication middlewares): requests of c1 vary their scope
\* and resource parameters and the clock stands still.
Profiles == {"scopes", "clock"}

IdleReq == [pc |-> "idle"]
NoResponse == [op |-> "none", status |-> 0, error |-> "", subject |-> Empty, active |-> FALSE]

NoVerdict == [op |-> "none", name |-> <<>>, allowed |-> FALSE, err |-> FALSE]

\* the resolver at rest: a client without access and no tool group
AclIdle ==
    /\ mcpClient = [AllowList |-> <<>>, AllowedToolGroups |-> <<>>]
    /\ toolGroups = {}
    /\ brokenServers = {}
    /\ verdict = NoVerdict

\* the user of the deployment, with a legacy access token
UserInputs == {[ID |-> 1, Username |-> "u1", AccessToken |-> <<"ut", 1>>]}

NoOutcome == [op |-> "none"]

\* the stores the middlewares do not read, empty
StoresIdle ==
    /\ clientSeq = 0
    /\ toolTable = <<>>
    /\ auditLogs = <<>>
    /\ auditQueue = <<>>
    /\ outcome = NoOutcome

GateIdle ==
    /\ users = UserInputs
    /\ oauthClients = OAuthClients
    /\ clientTable = {}
    /\ StoresIdle

\* no row in the table; a row with Deleted is a soft-deleted row (deleted_at set)
NoSession ==
    [McpServerName |-> "", AccessToken |-> Empty, RefreshToken |-> Empty,
     HasExpiry |-> FALSE, ExpiresAt |-> 0, CodeVerifier |-> "", Deleted |-> FALSE,
     TokenType |-> "", Scope |-> "", ClientID |-> "", TokenEndpoint |-> ""]

\* what a call or a handler of the upstream client returned
CallResult(op, server, status, token, err, refreshed) ==
    [op |-> op, server |-> server, status |-> status, token |-> token, err |-> err,
     refreshed |-> refreshed]

NoCall == CallResult("none", "", 0, Empty, "", FALSE)

\* a goroutine that is in no call
IdleCall ==
    [pc |-> "idle", op |-> "none", server |-> "", found |-> FALSE, needed |-> FALSE,
     local |-> [ID |-> 0, Session |-> NoSession], token |-> Empty, err |-> "", status |-> 0]

RaceIdle ==
    /\ sessionTable = {}
    /\ calls = [p \in Procs |-> IdleCall]
    /\ authServer = [policy |-> "static", issued |-> 0, latest |-> Empty]

UpstreamIdle ==
    /\ session = NoSession
    /\ clock = 0
    /\ upstream = NoCall
    /\ RaceIdle

IssuerStart ==
    /\ now = 0
    /\ authCodes = {}
    /\ codeSeq = 0
    /\ accessTokens = <<>>
    /\ refreshTokens = <<>>
    /\ reqs = [p \in Procs |-> IdleReq]
    /\ grants = [i \in 1..MaxCodes |-> 0]
    /\ last = NoResponse
    /\ ticks = 0

IssuerInit == IssuerStart /\ profile \in Profiles

Init == IssuerInit /\ AclIdle /\ GateIdle /\ UpstreamIdle


\* ----- OAuthService: authorization codes
FindCode(code) == {c \in authCodes : CodeValue(c.Code) = code}

\* GetAuthorizationCode: found = FALSE is the (nil, nil) return
GetAuthorizationCode(code) ==
    IF FindCode(code) = {} THEN [found |-> FALSE]
    ELSE [found |-> TRUE, row |-> CHOOSE c \in FindCode(code) : TRUE]

CreateAuthorizationCode(clientID, userID, redirectURI, scope, codeChallenge, codeChallengeMethod) ==
    [Code |-> codeSeq + 1,
     ClientID |-> clientID,
     UserID |-> userID,
     RedirectURI |-> redirectURI,
     Scope |-> scope,
     ExpiresAt |-> now + CodeTTL,
     CodeChallenge |-> codeChallenge,
     CodeChallengeMethod |-> codeChallengeMethod,
     Used |-> FALSE]

MarkAuthorizationCodeUsedNoop(code) == authCodes

\* MarkAuthorizationCodeUsed: the table after UPDATE ... SET used = true WHERE code = ?
MarkAuthorizationCodeUsed(code) ==
    {IF CodeValue(c.Code) = code THEN [c EXCEPT !.Used = TRUE] ELSE c : c \in authCodes}

\* ----- OAuthService: tokens
IssueAccessToken(clientID, userID, scope, audience, refreshTokenID) ==
    [ClientID |-> clientID,
     UserID |-> userID,
     Scope |-> scope,
     ExpiresAt |-> now + AccessTTL,
     RefreshTokenID |-> refreshTokenID,
     Audience |-> audience,
     Revoked |-> FALSE,
     Deleted |-> FALSE]

IssueRefreshToken(clientID, userID, scope) ==
    [ClientID |-> clientID,
     UserID |-> userID,
     Scope |-> scope,
     ExpiresAt |-> now + RefreshTTL,
     Revoked |-> FALSE,
     RotationCount |-> 0,
     Deleted |-> FALSE]

\* the live row of an access token value, as WHERE access_token = ? finds it
AccessRowOf(token) ==
    {i \in DOMAIN accessTokens : AccessValue(i) = token /\ ~accessTokens[i].Deleted}

RefreshRowOf(token) ==
    {i \in DOMAIN refreshTokens : RefreshValue(i) = token /\ ~refreshTokens[i].Deleted}

ValidateAccessTokenAnyRow(token) ==
    IF AccessRowOf(token) = {} THEN [ok |-> FALSE, id |-> 0]
    ELSE [ok |-> TRUE, id |-> CHOOSE i \in AccessRowOf(token) : TRUE]

\* ValidateAccessToken: ok = FALSE is "token not found" or "token is invalid or expired"
ValidateAccessToken(token) ==
    IF AccessRowOf(token) = {} THEN [ok |-> FALSE, id |-> 0]
    ELSE LET i == CHOOSE i \in AccessRowOf(token) : TRUE IN
         IF ~TokenIsValid(accessTokens[i]) THEN [ok |-> FALSE, id |-> 0]
         ELSE [ok |-> TRUE, id |-> i]

ValidateRefreshTokenIgnoreValid(token) ==
    IF RefreshRowOf(token) = {} THEN [ok |-> FALSE, id |-> 0]
    ELSE [ok |-> TRUE, id |-> CHOOSE i \in RefreshRowOf(token) : TRUE]

ValidateRefreshToken(token) ==
    IF RefreshRowOf(token) = {} THEN [ok |-> FALSE, id |-> 0]
    ELSE LET i == CHOOSE i \in RefreshRowOf(token) : TRUE IN
         IF ~TokenIsValid(refreshTokens[i]) THEN [ok |-> FALSE, id |-> 0]
         ELSE [ok |-> TRUE, id |-> i]

\* RevokeAccessToken: the table after UPDATE ... SET revoked = true WHERE
\* access_token = ?; the call returns Error = nil whatever the rows affected
RevokeAccessToken(token) ==
    [i \in DOMAIN accessTokens |->
        IF i \in AccessRowOf(token) THEN [accessTokens[i] EXCEPT !.Revoked = TRUE]
        ELSE accessTokens[i]]

RevokeRefreshToken(token) ==
    [i \in DOMAIN refreshTokens |->
        IF i \in RefreshRowOf(token) THEN [refreshTokens[i] EXCEPT !.Revoked = TRUE]
        ELSE refreshTokens[i]]

IncrementRefreshTokenRotationOnce(tokenID) ==
    [i \in DOMAIN refreshTokens |->
        IF i = tokenID /\ ~refreshTokens[i].Deleted
        THEN [refreshTokens[i] EXCEPT !.RotationCount = 1]
        ELSE refreshTokens[i]]

\* UPDATE ... SET rotation_count = rotation_count + 1 WHERE id = ?
IncrementRefreshTokenRotation(tokenID) ==
    [i \in DOMAIN refreshTokens |->
        IF i = tokenID /\ ~refreshTokens[i].Deleted
        THEN [refreshTokens[i] EXCEPT !.RotationCount = @ + 1]
        ELSE refreshTokens[i]]

\* ----- HTTP boundary: client credentials
\* The credentials a request carries: an Authorization: Basic header, or
\* client_id and client_secret in the form body.
Basic(id, secret) == [basic |-> TRUE, hid |-> id, hsecret |-> secret, bid |-> "", bsecret |-> ""]
Form(id, secret) == [basic |-> FALSE, hid |-> "", hsecret |-> "", bid |-> id, bsecret |-> secret]

CredInputs ==
    {Basic("c1", "s1"), Form("c1", "s1"), Basic("c1", "bad"),
     Form("c2", ""), Form("ghost", "s1"), Form("", "")}

CredOf(clientID) == IF clientID = "c1" THEN Basic("c1", "s1") ELSE Form("c2", "")

extractClientCredentials(cred, bodyClientID, bodyClientSecret) ==
    IF cred.basic THEN <<cred.hid, cred.hsecret>>
    ELSE <<bodyClientID, bodyClientSecret>>

\* OAuthTokenHandler up to the switch on grant_type: the authenticated client,
\* or the error response
TokenClient(cred) ==
    LET cc == extractClientCredentials(cred, cred.bid, cred.bsecret)
        client == GetClient(cc[1])
    IN  IF cc[1] = "" THEN [ok |-> FALSE, status |-> 400, error |-> "invalid_client"]
        ELSE IF client.ClientID = "" THEN [ok |-> FALSE, status |-> 401, error |-> "invalid_client"]
        ELSE IF client.IsConfidential /\ ~ValidateClientCredentials(cc[1], cc[2])
             THEN [ok |-> FALSE, status |-> 401, error |-> "invalid_client"]
        ELSE [ok |-> TRUE, status |-> 0, error |-> "", client |-> client]

ServerURL == "https://mcpjungle"
\* req.Resource, defaulting to getServerURL(c)
AudienceOf(resource) == IF resource = "" THEN ServerURL ELSE resource

Response(op, status, error) ==
    [op |-> op, status |-> status, error |-> error, subject |-> Empty, active |-> FALSE]

\* the response to a request that presented a code or a token
ResponseAbout(op, status, error, subject) ==
    [Response(op, status, error) EXCEPT !.subject = subject]


\* ----- inputs of the requests
NoChallenge == <<"", "">>
AllScopeInputs == {<<>>, <<"read">>, <<"read", "admin">>}
ScopeInputs == IF profile \in {"scopes", "audience"} THEN AllScopeInputs ELSE {<<>>}
OtherServerURL == "https://other"
ResourceInputs == IF profile = "audience" THEN {"", OtherServerURL} ELSE {""}
ClientInputs == IF profile = "scopes" THEN {"c1", "c2"} ELSE {"c1"}
VerifierInputs == {"v1", "v2"}
RedirectOf(clientID) == IF clientID = "c1" THEN "https://a/cb" ELSE "https://b/cb"
OtherClient(clientID) == IF clientID = "c1" THEN "c2" ELSE "c1"

\* GET /oauth/authorize: a well-formed request of each client with each scope,
\* and the well-formed request of c1 with one parameter changed
AuthorizeRequest(clientID, scope) ==
    [client_id |-> clientID, redirect_uri |-> RedirectOf(clientID),
     response_type |-> "code", scope |-> scope,
     code_challenge |-> GeneratePKCEChallenge("v1"),
     code_challenge_method |-> "S256", user_id |-> 1]

AuthorizeInputs ==
    LET base == AuthorizeRequest("c1", <<>>) IN
    {AuthorizeRequest(c, s) : c \in ClientInputs, s \in ScopeInputs}
      \cup {[base EXCEPT !.response_type = "token"],
            [base EXCEPT !.response_type = ""],
            [base EXCEPT !.code_challenge = NoChallenge],
            [base EXCEPT !.code_challenge_method = "plain"],
            [base EXCEPT !.client_id = "ghost"],
            [base EXCEPT !.redirect_uri = "https://b/cb"],
            [base EXCEPT !.user_id = NoUser]}

\* POST /oauth/token, authorization_code: for each stored code the request its
\* client would send and that request with one parameter changed; and requests
\* with a code that is not stored
ExchangeRequest(clientID, code, redirectURI, codeVerifier) ==
    [cred |-> CredOf(clientID), code |-> code, redirect_uri |-> redirectURI,
     code_verifier |-> codeVerifier]

ExchangeInputs ==
    UNION {{ExchangeRequest(c.ClientID, CodeValue(c.Code), c.RedirectURI, "v1"),
            ExchangeRequest(OtherClient(c.ClientID), CodeValue(c.Code), c.RedirectURI, "v1"),
            ExchangeRequest(c.ClientID, CodeValue(c.Code), RedirectOf(OtherClient(c.ClientID)), "v1"),
            ExchangeRequest(c.ClientID, CodeValue(c.Code), c.RedirectURI, "v2")}
           : c \in authCodes}
      \cup {ExchangeRequest("c1", CodeValue(i), "https://a/cb", "v1") : i \in 1..codeSeq}
      \cup {ExchangeRequest("c1", Unknown, "https://a/cb", "v1"),
            ExchangeRequest("c1", Empty, "https://a/cb", "v1")}

RefreshInputs == {RefreshValue(i) : i \in DOMAIN refreshTokens} \cup {Unknown, Empty}
GrantCredInputs == {CredOf(c) : c \in ClientInputs}
TokenInputs ==
    {AccessValue(i) : i \in DOMAIN accessTokens}
        \cup {RefreshValue(i) : i \in DOMAIN refreshTokens} \cup {Unknown, Empty}

\* POST /oauth/revoke, POST /oauth/introspect: every token with the
\* credentials of c1 in the header, and an unknown token with every credential
TokenRequestInputs ==
    {<<Basic("c1", "s1"), t>> : t \in TokenInputs}
      \cup {<<cred, t>> : cred \in CredInputs, t \in {Unknown} \cup {AccessValue(1)}}

Ready == last = NoResponse

Reply(r) ==
    /\ last' = r
    /\ UNCHANGED <<now, authCodes, codeSeq, accessTokens, refreshTokens, reqs, grants, profile, ticks, aclVars, gateVars, upstreamVars>>

\* the response leaves the server
Deliver ==
    /\ last # NoResponse
    /\ last' = NoResponse
    /\ UNCHANGED <<now, authCodes, codeSeq, accessTokens, refreshTokens, reqs, grants, profile, ticks, aclVars, gateVars, upstreamVars>>

\* ----- GET /oauth/authorize
\* OAuthAuthorizeHandler: the response, and whether a code is created
OAuthAuthorizeHandler(req) ==
    LET client == GetClient(req.client_id)
        validated == ValidateScopes(client, req.scope)
        refuse(status, error) == [status |-> status, error |-> error, create |-> FALSE]
    IN  IF req.client_id = "" \/ req.redirect_uri = "" \/ req.response_type = ""
        THEN refuse(400, "invalid_request")
        ELSE IF req.response_type # "code"
        THEN refuse(302, "unsupported_response_type")
        ELSE IF req.code_challenge = NoChallenge \/ req.code_challenge_method = ""
        THEN refuse(302, "invalid_request")
        ELSE IF req.code_challenge_method # "S256"
        THEN refuse(302, "invalid_request")
        ELSE IF client.ClientID = ""
        THEN refuse(302, "invalid_client")
        ELSE IF ~ValidateRedirectURI(client, req.redirect_uri)
        THEN refuse(400, "invalid_request")
        ELSE IF ~validated.ok
        THEN refuse(302, "invalid_scope")
        ELSE IF req.user_id = NoUser
        THEN refuse(302, "access_denied")
        ELSE [status |-> 302, error |-> "", create |-> TRUE]

OAuthAuthorize ==
    /\ Ready
    /\ \E req \in AuthorizeInputs :
         LET o == OAuthAuthorizeHandler(req) IN
         IF ~o.create
         THEN Reply(Response("authorize", o.status, o.error))
         ELSE /\ codeSeq < MaxCodes
              /\ authCodes' = authCodes \cup
                   {CreateAuthorizationCode(req.client_id, req.user_id, req.redirect_uri,
                       ValidateScopes(GetClient(req.client_id), req.scope).scope,
                       req.code_challenge, req.code_challenge_method)}
              /\ codeSeq' = codeSeq + 1
              /\ last' = Response("authorize", o.status, o.error)
              /\ UNCHANGED <<now, accessTokens, refreshTokens, reqs, grants, profile, ticks, aclVars, gateVars, upstreamVars>>

\* ----- POST /oauth/token
\* OAuthTokenHandler: the request is refused before the grant is looked at
OAuthTokenRejectClient ==
    /\ Ready
    /\ \E cred \in CredInputs :
         /\ ~TokenClient(cred).ok
         /\ Reply(Response("token", TokenClient(cred).status, TokenClient(cred).error))

\* handleAuthorizationCodeGrant up to the PKCE check: the checks made on the
\* row that GetAuthorizationCode read
AuthCodeCheck(client, code, redirectURI, codeVerifier) ==
    LET got == GetAuthorizationCode(code) IN
    IF code = Empty \/ redirectURI = "" \/ codeVerifier = ""
    THEN [ok |-> FALSE, status |-> 400, error |-> "invalid_request"]
    ELSE IF ~got.found
    THEN [ok |-> FALSE, status |-> 400, error |-> "invalid_grant"]
    ELSE IF ~CodeIsValid(got.row)
    THEN [ok |-> FALSE, status |-> 400, error |-> "invalid_grant"]
    ELSE IF got.row.ClientID # client.ClientID
    THEN [ok |-> FALSE, status |-> 400, error |-> "invalid_grant"]
    ELSE IF got.row.RedirectURI # redirectURI
    THEN [ok |-> FALSE, status |-> 400, error |-> "invalid_grant"]
    ELSE IF ~VerifyPKCE(codeVerifier, got.row.CodeChallenge, got.row.CodeChallengeMethod)
    THEN [ok |-> FALSE, status |-> 400, error |-> "invalid_grant"]
    ELSE [ok |-> TRUE, status |-> 0, error |-> "", row |-> got.row]

ExchangeCheck(req) ==
    AuthCodeCheck(TokenClient(req.cred).client, req.code, req.redirect_uri, req.code_verifier)

\* handleAuthorizationCodeGrant refuses the request
TokenAuthCodeRefuse ==
    /\ Ready
    /\ \E req \in ExchangeInputs :
         /\ ~ExchangeCheck(req).ok
         /\ Reply(ResponseAbout("authorization_code", ExchangeCheck(req).status,
                ExchangeCheck(req).error, req.code))

\* handleAuthorizationCodeGrant, first part: the code is read and passes the
\* checks; the request holds the row it read until it writes
TokenAuthCodeRead(p) ==
    /\ Ready
    /\ reqs[p].pc = "idle"
    /\ \E req \in ExchangeInputs, resource \in ResourceInputs :
         /\ ExchangeCheck(req).ok
         /\ reqs' = [reqs EXCEPT ![p] =
              [pc |-> "validated", Code |-> req.code,
               ClientID |-> TokenClient(req.cred).client.ClientID,
               UserID |-> ExchangeCheck(req).row.UserID,
               Scope |-> ExchangeCheck(req).row.Scope,
               Resource |-> resource]]
    /\ UNCHANGED <<now, authCodes, codeSeq, accessTokens, refreshTokens, grants, last, profile, ticks, aclVars, gateVars, upstreamVars>>

\* handleAuthorizationCodeGrant, second part: mark the code used, issue the
\* refresh token and the access token, respond
TokenAuthCodeIssue(p) ==
    /\ Ready
    /\ reqs[p].pc = "validated"
    /\ Len(accessTokens) < MaxAccess
    /\ Len(refreshTokens) < MaxRefresh
    /\ LET r == reqs[p]
           refreshID == Len(refreshTokens) + 1
       IN  /\ authCodes' = MarkAuthorizationCodeUsed(r.Code)
           /\ refreshTokens' = Append(refreshTokens,
                                 IssueRefreshToken(r.ClientID, r.UserID, r.Scope))
           /\ accessTokens' = Append(accessTokens,
                                 IssueAccessToken(r.ClientID, r.UserID, r.Scope,
                                     AudienceOf(r.Resource), refreshID))
           /\ grants' = [grants EXCEPT ![r.Code[2]] = @ + 1]
           /\ last' = ResponseAbout("authorization_code", 200, "", r.Code)
    /\ reqs' = [reqs EXCEPT ![p] = IdleReq]
    /\ UNCHANGED <<now, codeSeq, profile, ticks, aclVars, gateVars, upstreamVars>>

Outcome(status, error, access, refresh) ==
    [status |-> status, error |-> error, access |-> access, refresh |-> refresh]

\* handleRefreshTokenGrant: the response and the tables it leaves
handleRefreshTokenGrant(client, refreshToken, scope, resource) ==
    LET v == ValidateRefreshToken(refreshToken) IN
    IF refreshToken = Empty
    THEN Outcome(400, "invalid_request", accessTokens, refreshTokens)
    ELSE IF ~v.ok
    THEN Outcome(400, "invalid_grant", accessTokens, refreshTokens)
    ELSE IF refreshTokens[v.id].ClientID # client.ClientID
    THEN Outcome(400, "invalid_grant", accessTokens, refreshTokens)
    ELSE LET validated == IF scope # <<>> THEN ValidateScopes(client, scope)
                          ELSE [ok |-> TRUE, scope |-> refreshTokens[v.id].Scope]
         IN  IF ~validated.ok
             THEN Outcome(400, "invalid_scope", accessTokens, refreshTokens)
             ELSE Outcome(200, "",
                    Append(accessTokens,
                        IssueAccessToken(client.ClientID, refreshTokens[v.id].UserID,
                            validated.scope, AudienceOf(resource), v.id)),
                    IncrementRefreshTokenRotation(v.id))

TokenRefresh ==
    /\ Ready
    /\ \E cred \in GrantCredInputs, refreshToken \in RefreshInputs,
          scope \in ScopeInputs, resource \in ResourceInputs :
         LET o == handleRefreshTokenGrant(TokenClient(cred).client, refreshToken, scope, resource)
         IN  /\ o.status = 200 => Len(accessTokens) < MaxAccess
             /\ accessTokens' = o.access
             /\ refreshTokens' = o.refresh
             /\ last' = ResponseAbout("refresh_token", o.status, o.error, refreshToken)
    /\ UNCHANGED <<now, authCodes, codeSeq, reqs, grants, profile, ticks, aclVars, gateVars, upstreamVars>>

\* OAuthTokenResponse, and the fields of its JSON (omitempty drops an empty
\* refresh_token and an empty scope)
OAuthTokenResponse(accessToken, refreshToken, scope) ==
    [access_token |-> accessToken, token_type |-> "Bearer",
     refresh_token |-> refreshToken, scope |-> scope]

MarshalledFields(body) ==
    {"access_token", "token_type", "expires_in"}
        \cup (IF body.refresh_token # Empty THEN {"refresh_token"} ELSE {})
        \cup (IF body.scope # <<>> THEN {"scope"} ELSE {})

handleClientCredentialsGrantNoDefault(client, scope, resource) ==
    IF ~ValidateScopes(client, scope).ok
    THEN [status |-> 400, error |-> "invalid_scope",
          access |-> accessTokens, refresh |-> refreshTokens]
    ELSE [status |-> 200, error |-> "",
          access |-> Append(accessTokens,
                        IssueAccessToken(client.ClientID, NoUser,
                            ValidateScopes(client, scope).scope,
                            AudienceOf(resource), NoRefresh)),
          refresh |-> refreshTokens]

\* handleClientCredentialsGrant
handleClientCredentialsGrant(client, scope, resource) ==
    LET validated == IF scope = <<>> THEN [ok |-> TRUE, scope |-> client.Scopes]
                     ELSE ValidateScopes(client, scope)
    IN  IF ~validated.ok
        THEN Outcome(400, "invalid_scope", accessTokens, refreshTokens)
        ELSE Outcome(200, "",
               Append(accessTokens,
                   IssueAccessToken(client.ClientID, NoUser, validated.scope,
                       AudienceOf(resource), NoRefresh)),
               refreshTokens)

TokenClientCredentials ==
    /\ Ready
    /\ \E cred \in GrantCredInputs, scope \in ScopeInputs, resource \in ResourceInputs :
         LET o == handleClientCredentialsGrant(TokenClient(cred).client, scope, resource)
         IN  /\ o.status = 200 => Len(accessTokens) < MaxAccess
             /\ accessTokens' = o.access
             /\ refreshTokens' = o.refresh
             /\ last' = Response("client_credentials", o.status, o.error)
    /\ UNCHANGED <<now, authCodes, codeSeq, reqs, grants, profile, ticks, aclVars, gateVars, upstreamVars>>

\* ----- POST /oauth/revoke
\* The .Error of RevokeAccessToken's UPDATE: nil, also when no row matched
RevokeAccessTokenFailed(token) == FALSE

OAuthRevokeHandler(cred, token) ==
    LET cc == extractClientCredentials(cred, "", "") IN
    IF token = Empty
    THEN Outcome(400, "invalid_request", accessTokens, refreshTokens)
    ELSE IF cc[1] = ""
    THEN Outcome(400, "invalid_client", accessTokens, refreshTokens)
    ELSE IF ~ValidateClientCredentials(cc[1], cc[2])
    THEN Outcome(401, "invalid_client", accessTokens, refreshTokens)
    ELSE Outcome(200, "", RevokeAccessToken(token),
            IF RevokeAccessTokenFailed(token) THEN RevokeRefreshToken(token)
            ELSE refreshTokens)

OAuthRevoke ==
    /\ Ready
    /\ \E rq \in TokenRequestInputs :
         LET o == OAuthRevokeHandler(rq[1], rq[2]) IN
         /\ accessTokens' = o.access
         /\ refreshTokens' = o.refresh
         /\ last' = ResponseAbout("revoke", o.status, o.error, rq[2])
    /\ UNCHANGED <<now, authCodes, codeSeq, reqs, grants, profile, ticks, aclVars, gateVars, upstreamVars>>

\* OAuthService.RevokeRefreshToken called on its own: OAuthRevokeHandler
\* reaches it only when RevokeAccessToken reports an error
RevokeRefreshTokenCall ==
    /\ Ready
    /\ \E token \in RefreshInputs :
         /\ refreshTokens' = RevokeRefreshToken(token)
         /\ last' = ResponseAbout("RevokeRefreshToken", 0, "", token)
    /\ UNCHANGED <<now, authCodes, codeSeq, accessTokens, reqs, grants, profile, ticks, aclVars, gateVars, upstreamVars>>

\* ----- POST /oauth/introspect
OAuthIntrospectHandler(cred, token) ==
    LET cc == extractClientCredentials(cred, cred.bid, cred.bsecret)
        v == ValidateAccessToken(token)
        inactive == [client_id |-> "", scope |-> <<>>, exp |-> 0, aud |-> ""]
    IN  IF token = Empty
        THEN [status |-> 400, error |-> "invalid_request", active |-> FALSE] @@ inactive
        ELSE IF cc[1] = ""
        THEN [status |-> 401, error |-> "invalid_client", active |-> FALSE] @@ inactive
        ELSE IF ~ValidateClientCredentials(cc[1], cc[2])
        THEN [status |-> 401, error |-> "invalid_client", active |-> FALSE] @@ inactive
        ELSE IF ~v.ok
        THEN [status |-> 200, error |-> "", active |-> FALSE] @@ inactive
        ELSE [status |-> 200, error |-> "", active |-> TRUE,
              client_id |-> accessTokens[v.id].ClientID,
              scope |-> accessTokens[v.id].Scope,
              exp |-> accessTokens[v.id].ExpiresAt,
              aud |-> accessTokens[v.id].Audience]

OAuthIntrospect ==
    /\ Ready
    /\ \E rq \in TokenRequestInputs :
         LET o == OAuthIntrospectHandler(rq[1], rq[2]) IN
         Reply([ResponseAbout("introspect", o.status, o.error, rq[2]) EXCEPT !.active = o.active])

\* ----- the authentication middlewares' first branch (verifyUserAuthForAPIAccess,
\* checkAuthForMcpProxyAccess): the bearer is taken as an OAuth token
OAuthAuthenticates(token) == ValidateAccessToken(token).ok

\* ----- OAuthService.CleanupExpiredTokens
CleanupCodes == {c \in authCodes : ~(c.ExpiresAt < now)}

\* a sweep that also takes the revoked tokens
CleanupTokensAll(table) ==
    [i \in DOMAIN table |->
        IF table[i].ExpiresAt < now /\ ~table[i].Deleted
        THEN [table[i] EXCEPT !.Deleted = TRUE]
        ELSE table[i]]

CleanupTokens(table) ==
    [i \in DOMAIN table |->
        IF table[i].ExpiresAt < now /\ ~table[i].Revoked /\ ~table[i].Deleted
        THEN [table[i] EXCEPT !.Deleted = TRUE]
        ELSE table[i]]

CleanupExpiredTokens ==
    /\ Ready
    /\ authCodes' = CleanupCodes
    /\ accessTokens' = CleanupTokens(accessTokens)
    /\ refreshTokens' = CleanupTokens(refreshTokens)
    /\ last' = Response("cleanup", 0, "")
    /\ UNCHANGED <<now, codeSeq, reqs, grants, profile, ticks, aclVars, gateVars, upstreamVars>>

\* ----- the clock: time passes to the next instant at which some row is at
\* or just past its expiry
Instants ==
    UNION {{e, e + 1} :
        e \in {c.ExpiresAt : c \in authCodes}
                \cup {accessTokens[i].ExpiresAt : i \in DOMAIN accessTokens}
                \cup {refreshTokens[i].ExpiresAt : i \in DOMAIN refreshTokens}}

Tick ==
    /\ Ready
    /\ profile = "clock"
    /\ ticks < MaxTicks
    /\ ticks' = ticks + 1
    /\ \E t \in Instants : t > now /\ now' = t
    /\ UNCHANGED <<authCodes, codeSeq, accessTokens, refreshTokens, reqs, grants, last, profile, aclVars, gateVars, upstreamVars>>

Next ==
    \/ OAuthAuthorize
    \/ OAuthTokenRejectClient
    \/ TokenAuthCodeRefuse
    \/ \E p \in Procs : TokenAuthCodeRead(p)
    \/ \E p \in Procs : TokenAuthCodeIssue(p)
    \/ TokenRefresh
    \/ TokenClientCredentials
    \/ OAuthRevoke
    \/ RevokeRefreshTokenCall
    \/ OAuthIntrospect
    \/ CleanupExpiredTokens
    \/ Tick
    \/ Deliver

Spec == Init /\ [][Next]_vars


\* ===== the access-control resolver (McpClient, ToolGroup)
\* A name is the sequence of its characters.
Sep == <<"_", "_">>
Canonical(serverName, toolName) == serverName \o Sep \o toolName

ServerA == <<"a">>
ServerB == <<"b">>
ToolA1 == Canonical(ServerA, <<"t">>)
ToolA2 == Canonical(ServerA, <<"u">>)
ToolB1 == Canonical(ServerB, <<"t">>)

\* ToolResolver.ListToolsByServer: the tools registered for a server, or an error
ListToolsByServer(serverName) ==
    IF serverName \in brokenServers THEN [err |-> TRUE, tools |-> {}]
    ELSE IF serverName = ServerA THEN [err |-> FALSE, tools |-> {ToolA1, ToolA2}]
    ELSE IF serverName = ServerB THEN [err |-> FALSE, tools |-> {ToolB1}]
    ELSE [err |-> FALSE, tools |-> {}]

\* ToolGroupToolChecker.GetToolGroup
GetToolGroup(name) ==
    IF \E g \in toolGroups : g.Name = name
    THEN [found |-> TRUE, group |-> CHOOSE g \in toolGroups : g.Name = name]
    ELSE [found |-> FALSE]

\* exclusion applied before the servers' tools are added
ResolveEffectiveToolsExcludeFirst(g) ==
    IF \E i \in DOMAIN g.IncludedServers : ListToolsByServer(g.IncludedServers[i]).err
    THEN [err |-> TRUE, tools |-> {}]
    ELSE [err |-> FALSE,
          tools |-> (Range(g.IncludedTools) \ Range(g.ExcludedTools))
                       \cup UNION {ListToolsByServer(g.IncludedServers[i]).tools :
                                     i \in DOMAIN g.IncludedServers}]

\* ToolGroup.ResolveEffectiveTools: included tools and the tools of the
\* included servers, less the excluded tools; an error if a server's tools
\* cannot be listed
ResolveEffectiveTools(g) ==
    IF \E i \in DOMAIN g.IncludedServers : ListToolsByServer(g.IncludedServers[i]).err
    THEN [err |-> TRUE, tools |-> {}]
    ELSE [err |-> FALSE,
          tools |-> (Range(g.IncludedTools)
                       \cup UNION {ListToolsByServer(g.IncludedServers[i]).tools :
                                     i \in DOMAIN g.IncludedServers})
                    \ Range(g.ExcludedTools)]

\* splitServerToolName: split at the first "__"
splitServerToolName(name) ==
    LET at == {i \in 1..(Len(name) - 1) : name[i] = "_" /\ name[i + 1] = "_"} IN
    IF at = {} THEN [serverName |-> <<>>, toolName |-> <<>>, ok |-> FALSE]
    ELSE LET i == CHOOSE k \in at : \A m \in at : k <= m IN
         [serverName |-> SubSeq(name, 1, i - 1),
          toolName |-> SubSeq(name, i + 2, Len(name)), ok |-> TRUE]

\* McpClient.CheckHasServerAccess
CheckHasServerAccess(c, serverName) == serverName \in Range(c.AllowList)

\* a visit of the groups that gives up at a group that does not exist
RECURSIVE toolExistsUntilMissing(_, _)
toolExistsUntilMissing(toolName, allowedGroups) ==
    IF allowedGroups = <<>> THEN [allowed |-> FALSE, err |-> FALSE]
    ELSE LET got == GetToolGroup(Head(allowedGroups)) IN
         IF ~got.found THEN [allowed |-> FALSE, err |-> FALSE]
         ELSE IF ResolveEffectiveTools(got.group).err
         THEN [allowed |-> FALSE, err |-> TRUE]
         ELSE IF toolName \in ResolveEffectiveTools(got.group).tools
         THEN [allowed |-> TRUE, err |-> FALSE]
         ELSE toolExistsUntilMissing(toolName, Tail(allowedGroups))

\* McpClient.toolExistsInAllowedGroups: the groups are visited in the order
\* listed; a group that does not exist is skipped
RECURSIVE toolExistsInAllowedGroups(_, _)
toolExistsInAllowedGroups(toolName, allowedGroups) ==
    IF allowedGroups = <<>> THEN [allowed |-> FALSE, err |-> FALSE]
    ELSE LET got == GetToolGroup(Head(allowedGroups)) IN
         IF ~got.found THEN toolExistsInAllowedGroups(toolName, Tail(allowedGroups))
         ELSE IF ResolveEffectiveTools(got.group).err
         THEN [allowed |-> FALSE, err |-> TRUE]
         ELSE IF toolName \in ResolveEffectiveTools(got.group).tools
         THEN [allowed |-> TRUE, err |-> FALSE]
         ELSE toolExistsInAllowedGroups(toolName, Tail(allowedGroups))

CheckHasToolAccessWithFallback(c, toolName) ==
    LET split == splitServerToolName(toolName)
        inGroups == toolExistsInAllowedGroups(toolName, c.AllowedToolGroups)
    IN  IF inGroups.allowed \/ inGroups.err THEN inGroups
        ELSE IF ~split.ok THEN [allowed |-> FALSE, err |-> TRUE]
        ELSE [allowed |-> CheckHasServerAccess(c, split.serverName), err |-> FALSE]

\* McpClient.CheckHasToolAccess
CheckHasToolAccess(c, toolName) ==
    LET split == splitServerToolName(toolName) IN
    IF Len(c.AllowedToolGroups) > 0
    THEN toolExistsInAllowedGroups(toolName, c.AllowedToolGroups)
    ELSE IF ~split.ok THEN [allowed |-> FALSE, err |-> TRUE]
    ELSE [allowed |-> CheckHasServerAccess(c, split.serverName), err |-> FALSE]

\* ----- the configurations the resolver is exercised with
ToolGroup(name, includedTools, includedServers, excludedTools) ==
    [Name |-> name, IncludedTools |-> includedTools,
     IncludedServers |-> includedServers, ExcludedTools |-> excludedTools]

ToolGroupInputs ==
    {ToolGroup("g1", <<ToolA1>>, <<>>, <<>>),
     ToolGroup("g2", <<>>, <<ServerB>>, <<>>),
     ToolGroup("g3", <<ToolB1>>, <<ServerA>>, <<ToolA2>>)}

GroupNameInputs == {"g1", "g2", "g3"}
AllowListInputs == {<<>>, <<ServerA>>, <<ServerB>>}
AllowedToolGroupsInputs ==
    UNION {[1..n -> GroupNameInputs] : n \in 0..MaxAllowedGroups}
ToolNameInputs == {ToolA1, ToolA2, ToolB1, <<"t">>}
ServerNameInputs == {ServerA, ServerB, <<"c">>}

AclInit ==
    /\ mcpClient \in [AllowList : AllowListInputs, AllowedToolGroups : AllowedToolGroupsInputs]
    /\ toolGroups \in SUBSET ToolGroupInputs
    /\ brokenServers \in SUBSET {ServerA, ServerB}
    /\ verdict = NoVerdict

CheckToolAccess ==
    /\ \E toolName \in ToolNameInputs :
         verdict' = [op |-> "CheckHasToolAccess", name |-> toolName,
                     allowed |-> CheckHasToolAccess(mcpClient, toolName).allowed,
                     err |-> CheckHasToolAccess(mcpClient, toolName).err]
    /\ UNCHANGED <<mcpClient, toolGroups, brokenServers, issuerVars, gateVars, upstreamVars>>

CheckServerAccess ==
    /\ \E serverName \in ServerNameInputs :
         verdict' = [op |-> "CheckHasServerAccess", name |-> serverName,
                     allowed |-> CheckHasServerAccess(mcpClient, serverName),
                     err |-> FALSE]
    /\ UNCHANGED <<mcpClient, toolGroups, brokenServers, issuerVars, gateVars, upstreamVars>>

InitACL == IssuerInit /\ profile = "scopes" /\ AclInit /\ GateIdle /\ UpstreamIdle
NextACL == CheckToolAccess \/ CheckServerAccess
SpecACL == InitACL /\ [][NextACL]_vars

\* the i-th listed group exists, resolves, and has the tool in its effective set
GroupReaches(c, i, toolName) ==
    LET got == GetToolGroup(c.AllowedToolGroups[i]) IN
    /\ got.found
    /\ ~ResolveEffectiveTools(got.group).err
    /\ toolName \in ResolveEffectiveTools(got.group).tools

\* the i-th listed group exists and its resolution fails
GroupFails(c, i) ==
    LET got == GetToolGroup(c.AllowedToolGroups[i]) IN
    got.found /\ ResolveEffectiveTools(got.group).err

CanonicalToolNames == {n \in ToolNameInputs : splitServerToolName(n).ok}

\* C4 as stated: a canonical tool name is allowed exactly if the client lists
\* groups and some listed, existing group has the name in its effective tool
\* set, or lists no group and the name's server is in the allow list.
C4_AllowExactly ==
    \A toolName \in CanonicalToolNames :
        CheckHasToolAccess(mcpClient, toolName).allowed <=>
            \/ /\ Len(mcpClient.AllowedToolGroups) > 0
               /\ \E i \in DOMAIN mcpClient.AllowedToolGroups :
                     GroupReaches(mcpClient, i, toolName)
            \/ /\ Len(mcpClient.AllowedToolGroups) = 0
               /\ splitServerToolName(toolName).serverName \in Range(mcpClient.AllowList)

\* C4, amended: a canonical tool name is allowed exactly if the client lists
\* groups and some listed, existing group has the name in its effective tool
\* set with no listed, existing group before it failing to resolve, or lists
\* no group and the name's server is in the allow list; the call returns an
\* error only if a listed, existing group fails to resolve, never because a
\* listed group does not exist.
C4_AllowExactlyUnlessResolveFails ==
    \A toolName \in CanonicalToolNames :
        /\ CheckHasToolAccess(mcpClient, toolName).allowed <=>
            \/ /\ Len(mcpClient.AllowedToolGroups) > 0
               /\ \E i \in DOMAIN mcpClient.AllowedToolGroups :
                     /\ GroupReaches(mcpClient, i, toolName)
                     /\ \A j \in 1..(i - 1) : ~GroupFails(mcpClient, j)
            \/ /\ Len(mcpClient.AllowedToolGroups) = 0
               /\ splitServerToolName(toolName).serverName \in Range(mcpClient.AllowList)
        /\ CheckHasToolAccess(mcpClient, toolName).err =>
              \E i \in DOMAIN mcpClient.AllowedToolGroups : GroupFails(mcpClient, i)

\* a tool of an allow-listed server was denied to a client that lists groups,
\* one of them missing, none reaching the tool
C4_FallbackDisabled ==
    /\ verdict.op = "CheckHasToolAccess" /\ ~verdict.allowed /\ ~verdict.err
    /\ splitServerToolName(verdict.name).ok
    /\ splitServerToolName(verdict.name).serverName \in Range(mcpClient.AllowList)
    /\ \E i \in DOMAIN mcpClient.AllowedToolGroups :
          ~GetToolGroup(mcpClient.AllowedToolGroups[i]).found
    /\ \E i \in DOMAIN mcpClient.AllowedToolGroups :
          GetToolGroup(mcpClient.AllowedToolGroups[i]).found

\* ===== the authorization_code grant

\* every request of the grant that carries the code with all its parameters
ExchangeRequestsFor(code) ==
    {ExchangeRequest(c, code, r, v) :
        c \in {"c1", "c2"}, r \in {"https://a/cb", "https://b/cb"}, v \in VerifierInputs}

PresentableCodes == {CodeValue(i) : i \in 1..codeSeq} \cup {Unknown}

InvalidGrant == [ok |-> FALSE, status |-> 400, error |-> "invalid_grant"]

\* a step in which the handler of the grant sends a refusal / a token pair
ExchangeRefused == last' # last /\ last'.op = "authorization_code" /\ last'.status # 200
ExchangeGranted == last' # last /\ last'.op = "authorization_code" /\ last'.status = 200

\* C1: of the requests that present one authorization code, at most one is
\* answered with tokens, whatever the interleaving of the requests.
C1_AtMostOneExchange == \A i \in 1..MaxCodes : grants[i] <= 1

\* C2: the exchange that answers with a token pair leaves the code used; from
\* then on every exchange of that code is refused with 400 invalid_grant and
\* a refusal creates no token; a code that is used never becomes unused.
C2_Replay ==
    \A i \in 1..codeSeq :
        grants[i] >= 1 =>
            /\ \A c \in authCodes : c.Code = i => c.Used
            /\ \A req \in ExchangeRequestsFor(CodeValue(i)) : ExchangeCheck(req) = InvalidGrant

C2_Step ==
    /\ \A c \in authCodes : c.Used => \A d \in authCodes' : d.Code = c.Code => d.Used
    /\ ExchangeGranted =>
         \E p \in Procs :
            /\ reqs[p].pc = "validated" /\ reqs'[p].pc = "idle"
            /\ \A d \in authCodes' : CodeValue(d.Code) = reqs[p].Code => d.Used
    /\ ExchangeRefused => UNCHANGED <<authCodes, accessTokens, refreshTokens>>

C3_Conditions(req) ==
    \E c \in authCodes :
        /\ CodeValue(c.Code) = req.code
        /\ ~c.Used
        /\ ~(now > c.ExpiresAt)
        /\ c.ClientID = TokenClient(req.cred).client.ClientID
        /\ c.RedirectURI = req.redirect_uri
        /\ c.CodeChallengeMethod = "S256"
        /\ c.CodeChallenge = GeneratePKCEChallenge(req.code_verifier)

C3_Checks ==
    \A code \in PresentableCodes : \A req \in ExchangeRequestsFor(code) :
        IF C3_Conditions(req) THEN ExchangeCheck(req).ok
        ELSE ExchangeCheck(req) = InvalidGrant

C3_Step ==
    /\ ExchangeRefused => UNCHANGED <<authCodes, accessTokens, refreshTokens>>
    /\ ExchangeGranted => \E p \in Procs : reqs[p].pc = "validated" /\ reqs'[p].pc = "idle"
    /\ \A p \in Procs :
         (reqs[p].pc = "idle" /\ reqs'[p].pc = "validated") =>
            \E req \in ExchangeRequestsFor(reqs'[p].Code) :
                /\ C3_Conditions(req)
                /\ TokenClient(req.cred).client.ClientID = reqs'[p].ClientID

C3_GrantPreconditions == []C3_Checks /\ [][C3_Step]_vars

\* an unused code has expired and its exchange was refused
C3_ExpiredRefused ==
    \E c \in authCodes :
        /\ ~c.Used /\ now > c.ExpiresAt /\ grants[c.Code] = 0
        /\ last = ResponseAbout("authorization_code", 400, "invalid_grant", CodeValue(c.Code))

\* ===== revocation and the refresh_token grant

\* the credentials of a registered client, in the header or in the form body
RealCredInputs ==
    {cred \in CredInputs :
        IF cred.basic THEN ValidateClientCredentials(cred.hid, cred.hsecret)
        ELSE ValidateClientCredentials(cred.bid, cred.bsecret)}

PresentableTokens == TokenInputs \ {Empty}

\* the refresh_token grant refuses the token with invalid_grant and changes nothing
RefreshRefused(client, token, scope, resource) ==
    LET o == handleRefreshTokenGrant(client, token, scope, resource) IN
    /\ o.status = 400 /\ o.error = "invalid_grant"
    /\ o.access = accessTokens /\ o.refresh = refreshTokens

\* C5: a token whose revoked flag is set keeps it set in every step of the
\* issuer, and is refused wherever it is validated: introspection reports it
\* inactive, the middlewares do not take it as an OAuth token, the
\* refresh_token grant answers invalid_grant.
C5_RevokedIsRefused ==
    /\ \A i \in DOMAIN accessTokens :
          accessTokens[i].Revoked =>
             /\ ~OAuthAuthenticates(AccessValue(i))
             /\ \A cred \in CredInputs :
                   ~OAuthIntrospectHandler(cred, AccessValue(i)).active
    /\ \A j \in DOMAIN refreshTokens :
          refreshTokens[j].Revoked =>
             \A c \in OAuthClients, scope \in AllScopeInputs, resource \in ResourceInputs :
                 RefreshRefused(c, RefreshValue(j), scope, resource)

C5_Step ==
    /\ \A i \in DOMAIN accessTokens :
          accessTokens[i].Revoked => i \in DOMAIN accessTokens' /\ accessTokens'[i].Revoked
    /\ \A j \in DOMAIN refreshTokens :
          refreshTokens[j].Revoked => j \in DOMAIN refreshTokens' /\ refreshTokens'[j].Revoked

C5_RevokedForGood == []C5_RevokedIsRefused /\ [][C5_Step]_vars

\* an unexpired access token and an unexpired refresh token are revoked, and
\* the refresh_token grant has just refused the refresh token
C5_RevokedRefused ==
    \E i \in DOMAIN accessTokens, j \in DOMAIN refreshTokens :
        /\ accessTokens[i].Revoked /\ ~accessTokens[i].Deleted /\ ~TokenIsExpired(accessTokens[i])
        /\ refreshTokens[j].Revoked /\ ~refreshTokens[j].Deleted /\ ~TokenIsExpired(refreshTokens[j])
        /\ last = ResponseAbout("refresh_token", 400, "invalid_grant", RefreshValue(j))

\* C6: POST /oauth/revoke answers 200 to every request that carries a token
\* and the credentials of a registered client, in the Authorization header
\* or in the form body, whatever the token.
C6_RevokeAlways200 ==
    \A cred \in RealCredInputs, token \in PresentableTokens :
        OAuthRevokeHandler(cred, token).status = 200

\* C7: when POST /oauth/revoke has answered 200 to a request whose token is
\* the value of a stored refresh token, that refresh token is revoked.
C7_RefreshTokenRevoked ==
    (last.op = "revoke" /\ last.status = 200) =>
        \A j \in DOMAIN refreshTokens :
            (last.subject = RefreshValue(j) /\ ~refreshTokens[j].Deleted) =>
                refreshTokens[j].Revoked

\* C8: an access token that names a refresh token carries no scope outside
\* the scope of that refresh token.
C8_ScopeWithinRefreshToken ==
    \A i \in DOMAIN accessTokens :
        accessTokens[i].RefreshTokenID # NoRefresh =>
            Range(accessTokens[i].Scope)
                \subseteq Range(refreshTokens[accessTokens[i].RefreshTokenID].Scope)

\* a scope with a name outside the scopes configured for the client
OutOfSet(client, scope) ==
    Len(client.Scopes) > 0 /\ ~(Range(scope) \subseteq Range(client.Scopes))

\* C9: every access token carries only scopes configured for its client, if
\* the client has configured scopes; a request that names a scope outside
\* them is refused as a whole ("scope not allowed") by the authorization
\* endpoint and by the client_credentials and refresh_token grants, and
\* creates nothing.
C9_ScopesWithinClient ==
    /\ \A i \in DOMAIN accessTokens :
          LET client == GetClient(accessTokens[i].ClientID) IN
          Len(client.Scopes) > 0 =>
              Range(accessTokens[i].Scope) \subseteq Range(client.Scopes)
    /\ \A client \in OAuthClients, scope \in AllScopeInputs :
          OutOfSet(client, scope) =>
             /\ ~ValidateScopes(client, scope).ok
             /\ ~OAuthAuthorizeHandler(AuthorizeRequest(client.ClientID, scope)).create
             /\ \A resource \in ResourceInputs :
                   LET o == handleClientCredentialsGrant(client, scope, resource) IN
                   o.status = 400 /\ o.access = accessTokens /\ o.refresh = refreshTokens
             /\ \A token \in PresentableTokens, resource \in ResourceInputs :
                   LET o == handleRefreshTokenGrant(client, token, scope, resource) IN
                   o.status = 400 /\ o.access = accessTokens /\ o.refresh = refreshTokens

\* client c1 holds an access token with a scope, and its client_credentials
\* request for a scope outside its set was refused
C9_OutOfSetRefused ==
    /\ \E i \in DOMAIN accessTokens :
          accessTokens[i].ClientID = "c1" /\ accessTokens[i].Scope # <<>>
    /\ last = Response("client_credentials", 400, "invalid_scope")

\* C10: the refresh_token grant issues an access token only for a refresh
\* token that is stored, not revoked, not expired and issued to the
\* authenticating client; for every other token it answers 400
\* invalid_grant, creates no access token and leaves every rotation_count.
C10_Conditions(client, token) ==
    \E j \in DOMAIN refreshTokens :
        /\ token = RefreshValue(j)
        /\ ~refreshTokens[j].Deleted
        /\ ~refreshTokens[j].Revoked
        /\ ~(now > refreshTokens[j].ExpiresAt)
        /\ refreshTokens[j].ClientID = client.ClientID

C10_RefreshPreconditions ==
    \A client \in OAuthClients, token \in PresentableTokens,
       scope \in AllScopeInputs, resource \in ResourceInputs :
        LET o == handleRefreshTokenGrant(client, token, scope, resource) IN
        /\ o.status = 200 => C10_Conditions(client, token)
        /\ ~C10_Conditions(client, token) => RefreshRefused(client, token, scope, resource)
        /\ o.status # 200 => o.access = accessTokens /\ o.refresh = refreshTokens

\* a refresh token that is not revoked has expired and was refused
C10_ExpiredRefused ==
    \E j \in DOMAIN refreshTokens :
        /\ ~refreshTokens[j].Revoked /\ ~refreshTokens[j].Deleted
        /\ now > refreshTokens[j].ExpiresAt
        /\ last = ResponseAbout("refresh_token", 400, "invalid_grant", RefreshValue(j))

\* ===== the refresh_token grant, statement by statement
\* handleRefreshTokenGrant, first part: ValidateRefreshToken and the checks
\* pass; the request holds the row it read until it writes
TokenRefreshRead(p) ==
    /\ Ready
    /\ reqs[p].pc = "idle"
    /\ \E cred \in GrantCredInputs, refreshToken \in RefreshInputs,
          scope \in ScopeInputs, resource \in ResourceInputs :
         LET client == TokenClient(cred).client
             o == handleRefreshTokenGrant(client, refreshToken, scope, resource)
             id == ValidateRefreshToken(refreshToken).id
         IN  /\ o.status = 200
             /\ reqs' = [reqs EXCEPT ![p] =
                  [pc |-> "refreshing", Token |-> refreshToken, ID |-> id,
                   ClientID |-> client.ClientID,
                   UserID |-> refreshTokens[id].UserID,
                   Scope |-> IF scope # <<>> THEN ValidateScopes(client, scope).scope
                             ELSE refreshTokens[id].Scope,
                   Resource |-> resource]]
    /\ UNCHANGED <<now, authCodes, codeSeq, accessTokens, refreshTokens, grants, last,
                   profile, ticks, aclVars, gateVars, upstreamVars>>

\* handleRefreshTokenGrant, second part: IssueAccessToken,
\* IncrementRefreshTokenRotation, respond
TokenRefreshIssue(p) ==
    /\ Ready
    /\ reqs[p].pc = "refreshing"
    /\ Len(accessTokens) < 1 + MaxAccess
    /\ LET r == reqs[p] IN
         /\ accessTokens' = Append(accessTokens,
                               IssueAccessToken(r.ClientID, r.UserID, r.Scope,
                                   AudienceOf(r.Resource), r.ID))
         /\ refreshTokens' = IncrementRefreshTokenRotation(r.ID)
         /\ last' = ResponseAbout("refresh_token", 200, "", r.Token)
    /\ reqs' = [reqs EXCEPT ![p] = IdleReq]
    /\ UNCHANGED <<now, authCodes, codeSeq, grants, profile, ticks, aclVars, gateVars, upstreamVars>>

\* the issuer after client c1 exchanged one authorization code
InitRefresh ==
    /\ now = 0
    /\ codeSeq = 1
    /\ authCodes =
         {[CreateAuthorizationCode("c1", 1, "https://a/cb", <<>>,
               GeneratePKCEChallenge("v1"), "S256") EXCEPT !.Code = 1, !.Used = TRUE]}
    /\ refreshTokens = <<IssueRefreshToken("c1", 1, <<>>)>>
    /\ accessTokens = <<IssueAccessToken("c1", 1, <<>>, AudienceOf(""), 1)>>
    /\ reqs = [p \in Procs |-> IdleReq]
    /\ grants = [i \in 1..MaxCodes |-> IF i = 1 THEN 1 ELSE 0]
    /\ last = NoResponse
    /\ profile = "clock"
    /\ ticks = 0
    /\ AclIdle /\ GateIdle /\ UpstreamIdle

NextRefresh ==
    \/ \E p \in Procs : TokenRefreshRead(p)
    \/ \E p \in Procs : TokenRefreshIssue(p)
    \/ TokenRefresh
    \/ RevokeRefreshTokenCall
    \/ CleanupExpiredTokens
    \/ Tick
    \/ Deliver

SpecRefresh == InitRefresh /\ [][NextRefresh]_vars

\* the access tokens that name refresh token j
IssuedFrom(j) == {i \in DOMAIN accessTokens : accessTokens[i].RefreshTokenID = j}

\* C11: rotation_count never decreases; a refresh grant that answers with an
\* access token raises the count of the refresh token it presented by exactly
\* 1; the count of a stored refresh token is the number of refresh grants that
\* succeeded on it, however the grants interleave.
C11_Counted ==
    \A j \in DOMAIN refreshTokens :
        ~refreshTokens[j].Deleted =>
            refreshTokens[j].RotationCount = Cardinality(IssuedFrom(j)) - 1

C11_Step ==
    /\ \A j \in DOMAIN refreshTokens :
          /\ j \in DOMAIN refreshTokens'
          /\ refreshTokens'[j].RotationCount >= refreshTokens[j].RotationCount
    /\ \A j \in DOMAIN refreshTokens :
          (/\ last' # last
           /\ last' = ResponseAbout("refresh_token", 200, "", RefreshValue(j))
           /\ ~refreshTokens'[j].Deleted) =>
              /\ refreshTokens'[j].RotationCount = refreshTokens[j].RotationCount + 1
              /\ \A k \in DOMAIN refreshTokens \ {j} :
                    refreshTokens'[k].RotationCount = refreshTokens[k].RotationCount

ClientCredentialsBody(client, scope, resource) ==
    LET o == handleClientCredentialsGrant(client, scope, resource) IN
    OAuthTokenResponse(AccessValue(Len(o.access)), Empty, o.access[Len(o.access)].Scope)

\* C12: the client_credentials grant creates one access token with no user
\* and no refresh token behind it, creates no refresh token and answers
\* without a refresh_token; with the scope omitted the token carries all the
\* scopes configured for the client.
C12_ClientCredentials ==
    /\ \A client \in OAuthClients, scope \in AllScopeInputs, resource \in ResourceInputs :
          LET o == handleClientCredentialsGrant(client, scope, resource) IN
          IF o.status = 200
          THEN /\ o.refresh = refreshTokens
               /\ Len(o.access) = Len(accessTokens) + 1
               /\ SubSeq(o.access, 1, Len(accessTokens)) = accessTokens
               /\ o.access[Len(o.access)].ClientID = client.ClientID
               /\ o.access[Len(o.access)].UserID = NoUser
               /\ o.access[Len(o.access)].RefreshTokenID = NoRefresh
               /\ scope = <<>> => o.access[Len(o.access)].Scope = client.Scopes
               /\ "refresh_token" \notin
                     MarshalledFields(ClientCredentialsBody(client, scope, resource))
          ELSE o.access = accessTokens /\ o.refresh = refreshTokens
    /\ \A i \in DOMAIN accessTokens :
          accessTokens[i].UserID = NoUser => accessTokens[i].RefreshTokenID = NoRefresh

\* client c1 was granted a token without naming a scope, and no refresh
\* token exists
C12_DefaultScopeGranted ==
    /\ last = Response("client_credentials", 200, "")
    /\ refreshTokens = <<>>
    /\ \E i \in DOMAIN accessTokens :
          /\ accessTokens[i].ClientID = "c1" /\ accessTokens[i].UserID = NoUser
          /\ accessTokens[i].Scope = <<"read", "write">>

\* ===== introspection
\* C13: for a request with the credentials of a registered client and a
\* token, POST /oauth/introspect answers 200; it reports active exactly if
\* the value is a stored access token that is not revoked and not expired,
\* and then reports that token's client_id, scope, exp and aud.
C13_Introspection ==
    \A cred \in RealCredInputs, token \in PresentableTokens :
        LET o == OAuthIntrospectHandler(cred, token)
            rows == {i \in DOMAIN accessTokens :
                        /\ token = AccessValue(i)
                        /\ ~accessTokens[i].Deleted
                        /\ ~accessTokens[i].Revoked
                        /\ ~(now > accessTokens[i].ExpiresAt)}
        IN  /\ o.status = 200
            /\ o.active <=> rows # {}
            /\ \A i \in rows :
                  /\ o.client_id = accessTokens[i].ClientID
                  /\ o.scope = accessTokens[i].Scope
                  /\ o.exp = accessTokens[i].ExpiresAt
                  /\ o.aud = accessTokens[i].Audience

\* introspection reported a stored access token active while another access
\* token is revoked
C13_ActiveReported ==
    \E i, k \in DOMAIN accessTokens :
        /\ last = [ResponseAbout("introspect", 200, "", AccessValue(i)) EXCEPT !.active = TRUE]
        /\ accessTokens[k].Revoked

\* introspection reported an expired, unrevoked access token inactive
C13_ExpiredInactive ==
    \E i \in DOMAIN accessTokens :
        /\ last = ResponseAbout("introspect", 200, "", AccessValue(i))
        /\ ~accessTokens[i].Revoked /\ ~accessTokens[i].Deleted
        /\ now > accessTokens[i].ExpiresAt

\* ===== the authorization endpoint
\* every combination of the parameters of GET /oauth/authorize
AllAuthorizeInputs ==
    [client_id : {"c1", "c2", "ghost"},
     redirect_uri : {"https://a/cb", "https://b/cb", "https://evil/cb"},
     response_type : {"code", "token"},
     scope : AllScopeInputs,
     code_challenge : {NoChallenge, GeneratePKCEChallenge("v1")},
     code_challenge_method : {"", "S256", "plain"},
     user_id : {NoUser, 1}]

\* OAuthAuthorizeHandler on any of these requests
OAuthAuthorizeAny ==
    /\ Ready
    /\ \E req \in AllAuthorizeInputs :
         LET o == OAuthAuthorizeHandler(req) IN
         IF ~o.create
         THEN Reply(Response("authorize", o.status, o.error))
         ELSE /\ codeSeq < MaxCodes
              /\ authCodes' = authCodes \cup
                   {CreateAuthorizationCode(req.client_id, req.user_id, req.redirect_uri,
                       ValidateScopes(GetClient(req.client_id), req.scope).scope,
                       req.code_challenge, req.code_challenge_method)}
              /\ codeSeq' = codeSeq + 1
              /\ last' = Response("authorize", o.status, o.error)
              /\ UNCHANGED <<now, accessTokens, refreshTokens, reqs, grants, profile,
                             ticks, aclVars, gateVars, upstreamVars>>

InitAuthorize == IssuerInit /\ profile = "scopes" /\ AclIdle /\ GateIdle /\ UpstreamIdle

NextAuthorize ==
    \/ OAuthAuthorizeAny
    \/ TokenAuthCodeRefuse
    \/ \E p \in Procs : TokenAuthCodeRead(p)
    \/ \E p \in Procs : TokenAuthCodeIssue(p)
    \/ Deliver

SpecAuthorize == InitAuthorize /\ [][NextAuthorize]_vars

\* the client of the request exists and the redirect_uri is registered for it
RedirectValidated(req) ==
    /\ \E c \in OAuthClients : c.ClientID = req.client_id
    /\ \E c \in OAuthClients :
          c.ClientID = req.client_id /\ req.redirect_uri \in Range(c.RedirectURIs)

\* C14: GET /oauth/authorize answers with a redirect only to a redirect_uri
\* that is registered for the client of the request, which exists; a request
\* whose client is unknown or whose redirect_uri is not registered is
\* answered 400, in every state in which the server takes a request.
C14_RedirectOnlyValidated ==
    \A req \in AllAuthorizeInputs :
        (Ready /\ ~RedirectValidated(req)) => OAuthAuthorizeHandler(req).status = 400

\* C15: GET /oauth/authorize stores a code exactly for a request with
\* response_type code, a code_challenge with method S256, a client that
\* exists, a redirect_uri registered for it, scopes that validate and a user;
\* every other request stores nothing; a stored code has method S256, and is
\* unused when it is stored.
C15_Conditions(req) ==
    /\ req.response_type = "code"
    /\ req.code_challenge # NoChallenge
    /\ req.code_challenge_method = "S256"
    /\ RedirectValidated(req)
    /\ \E c \in OAuthClients :
          /\ c.ClientID = req.client_id
          /\ Len(c.Scopes) > 0 => Range(req.scope) \subseteq Range(c.Scopes)
    /\ req.user_id # NoUser

C15_Creates ==
    /\ \A req \in AllAuthorizeInputs : OAuthAuthorizeHandler(req).create <=> C15_Conditions(req)
    /\ \A c \in authCodes : c.CodeChallengeMethod = "S256"

C15_Step ==
    /\ \A c \in authCodes' :
          (\A d \in authCodes : d.Code # c.Code) =>
             /\ ~c.Used /\ c.CodeChallengeMethod = "S256"
             /\ last' = Response("authorize", 302, "")
             /\ \E req \in AllAuthorizeInputs :
                   /\ C15_Conditions(req)
                   /\ c.ClientID = req.client_id /\ c.RedirectURI = req.redirect_uri
                   /\ c.CodeChallenge = req.code_challenge /\ c.UserID = req.user_id
    /\ (last' # last /\ last'.op = "authorize" /\ last' # Response("authorize", 302, "")) =>
          authCodes' = authCodes

C15_CodeOnlyIfValid == []C15_Creates /\ [][C15_Step]_vars

\* a code has just been stored, unused
C15_CodeStored ==
    /\ last = Response("authorize", 302, "")
    /\ \E c \in authCodes : ~c.Used /\ c.Code = codeSeq

\* ===== the authentication middlewares
NoMode == ""
ModeDev == "development"
ModeInputs == {ModeDev, "enterprise", "production"}
EnterpriseModes == ModeInputs \ {ModeDev}

\* an Authorization header: "Bearer <value>", the bare value, or "Basic <value>";
\* Raw(Empty) is a request without the header
Bearer(value) == <<"Bearer", value>>
Raw(value) == <<"", value>>

\* strings.TrimPrefix(authHeader, "Bearer "): a header without the prefix is
\* taken whole
TrimPrefixBearer(authHeader) ==
    IF authHeader[1] \in {"Bearer", ""} THEN authHeader[2]
    ELSE <<authHeader[1], 0>>

\* the access token of the McpClient stored before the server started
McpClientToken == <<"mt", 0>>

\* McpClientService.GetClientByToken
GetClientByToken(token) ==
    IF \E c \in clientTable : c.AccessToken = token
    THEN [found |-> TRUE, client |-> CHOOSE c \in clientTable : c.AccessToken = token]
    ELSE [found |-> FALSE, client |-> mcpClient]

\* UserService.GetUserByAccessToken: the users whose access token is the value
GetUserByAccessToken(token) == {u \in users : u.AccessToken = token}

\* s.db.First(&authenticatedUser, id)
FirstUser(id) == {u \in users : u.ID = id}

\* oauthToken.UserID == nil
UserIDIsNilNever(t) == FALSE
UserIDIsNil(t) == t.UserID = NoUser

HeaderInputs ==
    {Raw(Empty), <<"Basic", Unknown>>}
      \cup {Bearer(t) : t \in TokenInputs \cup {McpClientToken}
                                \cup {u.AccessToken : u \in UserInputs}}
      \cup {Raw(t) : t \in {AccessValue(i) : i \in DOMAIN accessTokens}}

Abort(status, error) ==
    [status |-> status, error |-> error, next |-> FALSE, user |-> NoUser,
     audit |-> "", oauth |-> 0]

\* c.Next() with what the middleware bound to the request
PassOn(user, audit, oauth) ==
    [status |-> 200, error |-> "", next |-> TRUE, user |-> user, audit |-> audit,
     oauth |-> oauth]

\* verifyUserAuthForAPIAccess
verifyUserAuthForAPIAccess(mode, authHeader) ==
    LET token == TrimPrefixBearer(authHeader)
        v == ValidateAccessToken(token)
    IN  IF mode = NoMode THEN Abort(500, "server mode not found in context")
        ELSE IF mode = ModeDev THEN PassOn(NoUser, "", 0)
        ELSE IF token = Empty THEN Abort(401, "missing access token")
        ELSE IF v.ok
        THEN IF UserIDIsNil(accessTokens[v.id]) THEN Abort(403, "user access required")
             ELSE IF FirstUser(accessTokens[v.id].UserID) = {} THEN Abort(401, "user not found")
             ELSE LET u == CHOOSE u \in FirstUser(accessTokens[v.id].UserID) : TRUE
                  IN  PassOn(u.ID, u.Username, v.id)
        ELSE IF GetUserByAccessToken(token) = {} THEN Abort(401, "invalid access token")
        ELSE LET u == CHOOSE u \in GetUserByAccessToken(token) : TRUE
             IN  PassOn(u.ID, u.Username, 0)

PseudoClientAllServers(oauthClient) ==
    [Name |-> oauthClient.ClientName, AllowList |-> <<ServerA, ServerB>>,
     AllowedToolGroups |-> <<>>]

\* the pseudo McpClient built for an OAuth token: no AllowList, no AllowedToolGroups
PseudoClient(oauthClient) ==
    [Name |-> oauthClient.ClientName, AllowList |-> <<>>, AllowedToolGroups |-> <<>>]

NoClient == [Name |-> "", AllowList |-> <<>>, AllowedToolGroups |-> <<>>]

Blocked(status, error) ==
    [status |-> status, error |-> error, next |-> FALSE, client |-> NoClient,
     hasClient |-> FALSE, scopes |-> <<>>, audit |-> "", oauth |-> 0]

Proxied(client, hasClient, scopes, audit, oauth) ==
    [status |-> 200, error |-> "", next |-> TRUE, client |-> client,
     hasClient |-> hasClient, scopes |-> scopes, audit |-> audit, oauth |-> oauth]

\* checkAuthForMcpProxyAccess
checkAuthForMcpProxyAccess(mode, authHeader) ==
    LET token == TrimPrefixBearer(authHeader)
        v == ValidateAccessToken(token)
    IN  IF mode = NoMode THEN Blocked(500, "server mode not found in context")
        ELSE IF mode = ModeDev THEN Proxied(NoClient, FALSE, <<>>, "", 0)
        ELSE IF token = Empty THEN Blocked(401, "missing MCP client access token")
        ELSE IF v.ok
        THEN LET oauthClient == GetClient(accessTokens[v.id].ClientID) IN
             IF oauthClient.ClientID = "" THEN Blocked(401, "OAuth client not found")
             ELSE Proxied(PseudoClient(oauthClient), TRUE, accessTokens[v.id].Scope,
                          oauthClient.ClientName, v.id)
        ELSE IF ~GetClientByToken(token).found THEN Blocked(401, "invalid MCP client token")
        ELSE Proxied(GetClientByToken(token).client, TRUE, <<>>, "mcp-client", 0)

\* a request to the API
ApiRequest ==
    /\ Ready
    /\ \E mode \in ModeInputs, authHeader \in HeaderInputs :
         LET g == verifyUserAuthForAPIAccess(mode, authHeader) IN
         Reply(ResponseAbout("api", g.status, g.error, TrimPrefixBearer(authHeader)))

ProxiedToolInputs == {ToolB1, <<"t">>}

\* a tool call through the MCP proxy: the middleware, then the access check
\* of the client bound to the request
McpProxyRequest ==
    /\ Ready
    /\ \E mode \in ModeInputs, authHeader \in HeaderInputs, toolName \in ProxiedToolInputs :
         LET g == checkAuthForMcpProxyAccess(mode, authHeader) IN
         /\ last' = ResponseAbout("mcp", g.status, g.error, TrimPrefixBearer(authHeader))
         /\ verdict' = IF g.next /\ g.hasClient
                       THEN [op |-> "CheckHasToolAccess", name |-> toolName,
                             allowed |-> CheckHasToolAccess(g.client, toolName).allowed,
                             err |-> CheckHasToolAccess(g.client, toolName).err]
                       ELSE NoVerdict
    /\ UNCHANGED <<now, authCodes, codeSeq, accessTokens, refreshTokens, reqs, grants,
                   profile, ticks, mcpClient, toolGroups, brokenServers, gateVars,
                   upstreamVars>>

InitGate ==
    /\ IssuerStart
    /\ profile \in {"audience", "clock"}
    /\ mcpClient = [AllowList |-> <<>>, AllowedToolGroups |-> <<>>]
    /\ clientTable = {[Name |-> "cli", AccessToken |-> McpClientToken,
                       AllowList |-> <<ServerA>>, AllowedToolGroups |-> <<"g2">>]}
    /\ oauthClients = OAuthClients
    /\ StoresIdle
    /\ toolGroups = ToolGroupInputs
    /\ brokenServers = {}
    /\ verdict = NoVerdict
    /\ users \in SUBSET UserInputs
    /\ UpstreamIdle

NextGate ==
    \/ OAuthAuthorize
    \/ TokenAuthCodeRead(1)
    \/ TokenAuthCodeIssue(1)
    \/ TokenClientCredentials
    \/ OAuthRevoke
    \/ Tick
    \/ ApiRequest
    \/ McpProxyRequest
    \/ Deliver

SpecGate == InitGate /\ [][NextGate]_vars

\* ----- claims about the middlewares
\* the access token rows a presented value validates to
ValidOAuth(token) == ValidateAccessToken(token).ok

\* C16: outside development mode verifyUserAuthForAPIAccess calls the handler
\* only with a stored user and that user's name as audit actor bound to the
\* request; an empty bearer gets 401; a valid OAuth token without a user gets
\* 403 "user access required"; a value that is not a valid OAuth token is
\* looked up among the users' legacy tokens, passes when it is one and gets
\* 401 when it is not.
C16_UserBound ==
    \A mode \in EnterpriseModes, authHeader \in HeaderInputs :
        LET g == verifyUserAuthForAPIAccess(mode, authHeader)
            token == TrimPrefixBearer(authHeader)
        IN  /\ g.next => /\ g.status = 200
                         /\ \E u \in users : u.ID = g.user /\ u.Username = g.audit
                         /\ g.user # NoUser /\ g.audit # ""
            /\ ~g.next => g.status \in {401, 403}
            /\ token = Empty => g.status = 401
            /\ (token # Empty /\ ValidOAuth(token)) =>
                  LET t == accessTokens[ValidateAccessToken(token).id] IN
                  /\ t.UserID = NoUser =>
                        g.status = 403 /\ g.error = "user access required"
                  /\ t.UserID # NoUser =>
                        IF \E u \in users : u.ID = t.UserID
                        THEN g.next /\ g.user = t.UserID
                        ELSE g.status = 401
            /\ (token # Empty /\ ~ValidOAuth(token)) =>
                  IF \E u \in users : u.AccessToken = token
                  THEN g.next /\ \E u \in users : u.AccessToken = token /\ u.ID = g.user
                  ELSE g.status = 401

\* a client-credentials token has just been refused with 403
C16_ClientCredentialsRefused ==
    /\ last.op = "api" /\ last.status = 403
    /\ \E i \in DOMAIN accessTokens :
          /\ last.subject = AccessValue(i)
          /\ accessTokens[i].UserID = NoUser
          /\ TokenIsValid(accessTokens[i])

\* an expired OAuth token of a user has just been refused with 401
C16_ExpiredRefused ==
    /\ last.op = "api" /\ last.status = 401
    /\ \E i \in DOMAIN accessTokens :
          /\ last.subject = AccessValue(i)
          /\ accessTokens[i].UserID # NoUser
          /\ TokenIsExpired(accessTokens[i])

\* C17: outside development mode the middlewares accept an OAuth access
\* token only if its stored audience is this server.
C17_AudienceChecked ==
    \A mode \in EnterpriseModes, authHeader \in HeaderInputs :
        /\ LET g == verifyUserAuthForAPIAccess(mode, authHeader) IN
           (g.next /\ g.oauth # 0) => accessTokens[g.oauth].Audience = ServerURL
        /\ LET g == checkAuthForMcpProxyAccess(mode, authHeader) IN
           (g.next /\ g.oauth # 0) => accessTokens[g.oauth].Audience = ServerURL

UpstreamServer == "a"
ServerInputs == {UpstreamServer, "b"}

\* OAuthUpstreamSession.IsAccessTokenExpired
IsAccessTokenExpired(s) ==
    IF ~s.HasExpiry THEN FALSE
    ELSE clock + FiveMinutes > s.ExpiresAt

\* OAuthUpstreamSession.NeedsRefresh
NeedsRefresh(s) == s.RefreshToken # Empty /\ IsAccessTokenExpired(s)

\* what the upstream token endpoint answers: an error, or a 200 whose body
\* decodes to a TokenResponse: expires_in of 0, 60, 300, 360 or 600 seconds,
\* access_token and refresh_token present or not
ExpiresInInputs == {0, 1, 5, 6, 10}

\* a decoded TokenResponse; the token_type and scope that come with an access
\* token are fixed per token
TokenResponse(accessToken, refreshToken, expiresIn) ==
    [ok |-> TRUE, AccessToken |-> accessToken, RefreshToken |-> refreshToken,
     ExpiresIn |-> expiresIn,
     TokenType |-> IF accessToken = Empty THEN ""
                   ELSE IF accessToken = <<"up", 1>> THEN "Bearer" ELSE "bearer",
     Scope |-> IF accessToken = <<"up", 1>> THEN "read" ELSE ""]

TokenResponseInputs ==
    UNION {{TokenResponse(a, r, e) :
               r \in {Empty, IF a = <<"up", 2>> THEN <<"ur", 2>> ELSE <<"ur", 1>>},
               e \in ExpiresInInputs} : a \in {Empty, <<"up", 1>>, <<"up", 2>>}}
      \cup {[ok |-> FALSE, AccessToken |-> Empty, RefreshToken |-> Empty, ExpiresIn |-> 0,
              TokenType |-> "", Scope |-> ""]}

\* db.Where("mcp_server_name = ?", serverName).First(&session): soft-deleted
\* rows are not found
SessionFound(serverName) ==
    session.McpServerName # "" /\ session.McpServerName = serverName /\ ~session.Deleted

Returned(token, err, refreshed, row) ==
    [token |-> token, err |-> err, refreshed |-> refreshed, session |-> row]

\* a refresh that stores the response's refresh_token also when it is empty
GetOrRefreshUpstreamTokenOverwrites(serverName, tokenResp) ==
    IF ~SessionFound(serverName)
    THEN Returned(Empty, "no OAuth session found for server", FALSE, session)
    ELSE IF ~NeedsRefresh(session)
    THEN Returned(session.AccessToken, "", FALSE, session)
    ELSE IF ~tokenResp.ok
    THEN Returned(Empty, "failed to refresh access token", FALSE, session)
    ELSE Returned(tokenResp.AccessToken, "", TRUE,
                  [session EXCEPT !.AccessToken = tokenResp.AccessToken,
                                  !.HasExpiry = TRUE,
                                  !.ExpiresAt = clock + tokenResp.ExpiresIn,
                                  !.TokenType = tokenResp.TokenType,
                                  !.RefreshToken = tokenResp.RefreshToken])

\* GetOrRefreshUpstreamToken, tokenResp being the answer RefreshAccessToken gets
GetOrRefreshUpstreamToken(serverName, tokenResp) ==
    IF ~SessionFound(serverName)
    THEN Returned(Empty, "no OAuth session found for server", FALSE, session)
    ELSE IF ~NeedsRefresh(session)
    THEN Returned(session.AccessToken, "", FALSE, session)
    ELSE IF session.RefreshToken = Empty
    THEN Returned(Empty, "access token expired and no refresh token available", FALSE, session)
    ELSE IF ~tokenResp.ok
    THEN Returned(Empty, "failed to refresh access token", FALSE, session)
    ELSE LET saved == [session EXCEPT
                         !.AccessToken = tokenResp.AccessToken,
                         !.HasExpiry = TRUE,
                         !.ExpiresAt = clock + tokenResp.ExpiresIn,
                         !.TokenType = tokenResp.TokenType,
                         !.RefreshToken = IF tokenResp.RefreshToken # Empty
                                          THEN tokenResp.RefreshToken ELSE @]
         IN  Returned(saved.AccessToken, "", TRUE, saved)

GetOrRefresh ==
    /\ \E serverName \in ServerInputs, tokenResp \in TokenResponseInputs :
         LET o == GetOrRefreshUpstreamToken(serverName, tokenResp) IN
         /\ session' = o.session
         /\ upstream' = CallResult("GetOrRefreshUpstreamToken", serverName, 0, o.token,
                                   o.err, o.refreshed)
    /\ UNCHANGED <<clock, raceVars, issuerVars, aclVars, gateVars>>

\* StoreUpstreamSession: the row of the name is updated when First finds it;
\* otherwise a row is created, which the unique index on mcp_server_name
\* refuses while a soft-deleted row holds the name
StoreUpstreamSession(row) ==
    IF SessionFound(row.McpServerName) THEN [err |-> FALSE, session |-> row]
    ELSE IF session.McpServerName = row.McpServerName THEN [err |-> TRUE, session |-> session]
    ELSE [err |-> FALSE, session |-> row]

\* DeleteUpstreamSession: db.Where(...).Delete of a model with DeletedAt sets
\* deleted_at on the rows found
DeleteUpstreamSession(serverName) ==
    IF SessionFound(serverName) THEN [session EXCEPT !.Deleted = TRUE] ELSE session

Handled(status, row) == [status |-> status, session |-> row]

\* OAuthClientInitiateHandler, discovery and registration having succeeded:
\* the session is stored with the PKCE verifier and without tokens
OAuthClientInitiateHandler(serverName) ==
    LET stored == StoreUpstreamSession(
                     [NoSession EXCEPT !.McpServerName = serverName, !.CodeVerifier = "v1",
                                       !.ClientID = "mcpjungle", !.Scope = "read write",
                                       !.TokenEndpoint = "https://up/token"])
    IN  IF stored.err THEN Handled(500, session) ELSE Handled(200, stored.session)

\* a callback that spends the stored code verifier before the exchange
OAuthClientCallbackHandlerSpends(serverName, tokenResp) ==
    IF ~SessionFound(serverName) THEN Handled(400, session)
    ELSE IF ~tokenResp.ok THEN Handled(502, [session EXCEPT !.CodeVerifier = ""])
    ELSE Handled(200, [session EXCEPT !.AccessToken = tokenResp.AccessToken,
                                      !.RefreshToken = tokenResp.RefreshToken,
                                      !.TokenType = tokenResp.TokenType,
                                      !.Scope = tokenResp.Scope,
                                      !.CodeVerifier = "",
                                      !.HasExpiry = IF tokenResp.ExpiresIn > 0 THEN TRUE ELSE @,
                                      !.ExpiresAt = IF tokenResp.ExpiresIn > 0
                                                    THEN clock + tokenResp.ExpiresIn ELSE @])

\* OAuthClientCallbackHandler, tokenResp being the answer
\* ExchangeAuthorizationCode gets
OAuthClientCallbackHandler(serverName, tokenResp) ==
    IF ~SessionFound(serverName) THEN Handled(400, session)
    ELSE IF ~tokenResp.ok THEN Handled(502, session)
    ELSE LET stored == StoreUpstreamSession(
                          [session EXCEPT
                             !.AccessToken = tokenResp.AccessToken,
                             !.RefreshToken = tokenResp.RefreshToken,
                             !.TokenType = tokenResp.TokenType,
                             !.Scope = tokenResp.Scope,
                             !.CodeVerifier = "",
                             !.HasExpiry = IF tokenResp.ExpiresIn > 0 THEN TRUE ELSE @,
                             !.ExpiresAt = IF tokenResp.ExpiresIn > 0
                                           THEN clock + tokenResp.ExpiresIn ELSE @])
         IN  IF stored.err THEN Handled(500, session) ELSE Handled(200, stored.session)

\* OAuthClientStatusHandler
OAuthClientStatusHandler(serverName) == IF SessionFound(serverName) THEN 200 ELSE 404

\* OAuthClientRevokeHandler (the reliable database returns no error)
OAuthClientRevokeHandler(serverName) == Handled(200, DeleteUpstreamSession(serverName))

UpstreamInitiate ==
    /\ \E serverName \in ServerInputs :
         LET o == OAuthClientInitiateHandler(serverName) IN
         /\ session' = o.session
         /\ upstream' = CallResult("OAuthClientInitiateHandler", serverName, o.status,
                                   Empty, "", FALSE)
    /\ UNCHANGED <<clock, raceVars, issuerVars, aclVars, gateVars>>

UpstreamCallback ==
    /\ \E serverName \in ServerInputs, tokenResp \in TokenResponseInputs :
         LET o == OAuthClientCallbackHandler(serverName, tokenResp) IN
         /\ session' = o.session
         /\ upstream' = CallResult("OAuthClientCallbackHandler", serverName, o.status,
                                   Empty, "", FALSE)
    /\ UNCHANGED <<clock, raceVars, issuerVars, aclVars, gateVars>>

UpstreamRevoke ==
    /\ \E serverName \in ServerInputs :
         LET o == OAuthClientRevokeHandler(serverName) IN
         /\ session' = o.session
         /\ upstream' = CallResult("OAuthClientRevokeHandler", serverName, o.status,
                                   Empty, "", FALSE)
    /\ UNCHANGED <<clock, raceVars, issuerVars, aclVars, gateVars>>

\* a minute passes
ClockTick ==
    /\ clock < MaxClock
    /\ clock' = clock + 1
    /\ UNCHANGED <<session, upstream, raceVars, issuerVars, aclVars, gateVars>>

InitUpstream == IssuerStart /\ profile = "clock" /\ AclIdle /\ GateIdle /\ UpstreamIdle

NextUpstream ==
    \/ UpstreamInitiate
    \/ UpstreamCallback
    \/ GetOrRefresh
    \/ UpstreamRevoke
    \/ ClockTick

SpecUpstream == InitUpstream /\ [][NextUpstream]_vars

\* C19: when the stored access token is expired (or within 5 minutes of
\* expiry) and the session has no refresh token, GetOrRefreshUpstreamToken
\* fails with "access token expired and no refresh token available" and
\* returns no token.
C19_ExpiredWithoutRefreshFails ==
    (SessionFound(UpstreamServer) /\ IsAccessTokenExpired(session)
        /\ session.RefreshToken = Empty) =>
       \A tokenResp \in TokenResponseInputs :
          LET o == GetOrRefreshUpstreamToken(UpstreamServer, tokenResp) IN
          /\ o.err = "access token expired and no refresh token available"
          /\ o.token = Empty

\* C20: when GetOrRefreshUpstreamToken refreshed and returned a token, the
\* session it stored has now < expires_at - 5 min, whatever expires_in the
\* upstream answered.
C20_FreshAfterRefresh ==
    \A tokenResp \in TokenResponseInputs :
        LET o == GetOrRefreshUpstreamToken(UpstreamServer, tokenResp) IN
        (o.refreshed /\ o.err = "") =>
            /\ o.session.HasExpiry
            /\ clock < o.session.ExpiresAt - FiveMinutes

\* a call of GetOrRefreshUpstreamToken for the server returns a token
C21_FirstCall(tokenResp) ==
    LET o == GetOrRefreshUpstreamToken(UpstreamServer, tokenResp) IN
    /\ o.err = ""
    /\ session' = o.session
    /\ upstream' = CallResult("GetOrRefreshUpstreamToken", UpstreamServer, 0, o.token,
                              o.err, o.refreshed)
    /\ clock' = clock

\* the call that follows it at once returns the same token without a refresh
C21_SecondCall ==
    \A tokenResp \in TokenResponseInputs :
        /\ GetOrRefreshUpstreamToken(UpstreamServer, tokenResp).token' = upstream'.token
        /\ GetOrRefreshUpstreamToken(UpstreamServer, tokenResp).err' = ""
        /\ ~GetOrRefreshUpstreamToken(UpstreamServer, tokenResp).refreshed'

\* C21: a call of GetOrRefreshUpstreamToken that follows a call that returned
\* a token, with no change of the session in between, returns the same token
\* and sends no refresh request, also when the first call refreshed.
C21_SecondCallSame ==
    [][(\E tokenResp \in TokenResponseInputs : C21_FirstCall(tokenResp)) => C21_SecondCall]_vars

\* C22: when the callback handler answers 200, the session it stored has no
\* code verifier and has an access token, whatever 200 body the upstream
\* token endpoint returned.
C22_CallbackStoresToken ==
    \A serverName \in ServerInputs, tokenResp \in TokenResponseInputs :
        LET o == OAuthClientCallbackHandler(serverName, tokenResp) IN
        o.status = 200 =>
            /\ o.session.McpServerName = serverName /\ ~o.session.Deleted
            /\ o.session.CodeVerifier = ""
            /\ o.session.AccessToken # Empty

\* C23: when DELETE for a server has completed and nothing else has touched
\* the session since, GetOrRefreshUpstreamToken fails with "no OAuth session
\* found", the status endpoint answers 404, and an initiation for the same
\* name answers 200 and stores a session for it.
C23_DeletedThenFresh ==
    (upstream.op = "OAuthClientRevokeHandler" /\ upstream.status = 200) =>
        /\ \A tokenResp \in TokenResponseInputs :
              /\ GetOrRefreshUpstreamToken(upstream.server, tokenResp).err
                    = "no OAuth session found for server"
              /\ GetOrRefreshUpstreamToken(upstream.server, tokenResp).token = Empty
        /\ OAuthClientStatusHandler(upstream.server) = 404
        /\ LET o == OAuthClientInitiateHandler(upstream.server) IN
           /\ o.status = 200
           /\ o.session.McpServerName = upstream.server /\ ~o.session.Deleted

\* needs_refresh as the specification states it
C32_NeedsRefresh(s) == s.RefreshToken # Empty /\ s.ExpiresAt - clock <= 5

\* C32: for a stored session with an expiry, GetOrRefreshUpstreamToken
\* returns the stored access token, whatever the upstream would answer and
\* with the session as it was, exactly when not (refresh_token # "" and
\* expires_at - now <= 5 min).
C32_StoredExactlyWhenFresh ==
    (SessionFound(UpstreamServer) /\ session.HasExpiry) =>
       \A tokenResp \in TokenResponseInputs :
          LET o == GetOrRefreshUpstreamToken(UpstreamServer, tokenResp) IN
          (o.err = "" /\ ~o.refreshed /\ o.token = session.AccessToken
              /\ o.session = session)
             <=> ~C32_NeedsRefresh(session)

\* the step is a call of GetOrRefreshUpstreamToken
C33_Call == upstream'.op = "GetOrRefreshUpstreamToken" /\ clock' = clock

\* the session after the step is the session before it with the response's
\* access_token, token_type and expires_at, and with its refresh_token when
\* that is not empty
C33_Overwritten(tokenResp) ==
    /\ tokenResp.ok
    /\ upstream'.token = tokenResp.AccessToken
    /\ session' = [session EXCEPT
                      !.AccessToken = tokenResp.AccessToken,
                      !.TokenType = tokenResp.TokenType,
                      !.HasExpiry = TRUE,
                      !.ExpiresAt = clock + tokenResp.ExpiresIn,
                      !.RefreshToken = IF tokenResp.RefreshToken # Empty
                                       THEN tokenResp.RefreshToken ELSE session.RefreshToken]

C33_Step ==
    C33_Call =>
       /\ upstream'.refreshed => \E tokenResp \in TokenResponseInputs : C33_Overwritten(tokenResp)
       /\ ~upstream'.refreshed => session' = session

\* C33: a call of GetOrRefreshUpstreamToken that refreshed leaves the
\* session it found with access_token, token_type and expires_at of the
\* upstream's response, with the response's refresh_token if that is not
\* empty and the old one otherwise, and with every other field as it was; a
\* call that did not refresh (also one whose refresh failed) leaves the
\* session as it was.
C33_RefreshFrame == [][C33_Step]_vars

\* a refresh without a new refresh token has kept the old one and replaced
\* the access token and its type
C33_RefreshKept ==
    /\ upstream.op = "GetOrRefreshUpstreamToken" /\ upstream.refreshed
    /\ session.AccessToken = <<"up", 2>> /\ session.TokenType = "bearer"
    /\ session.RefreshToken = <<"ur", 1>>
    /\ session.Scope = "read"

\* the step is a callback that failed: 400 for no session, 502 for an
\* exchange the upstream did not answer with 200
C39_FailedCallback ==
    /\ upstream'.op = "OAuthClientCallbackHandler"
    /\ upstream'.status \in {400, 502}
    /\ clock' = clock

C39_Step ==
    C39_FailedCallback =>
       /\ session' = session
       /\ upstream'.status = 502 =>
             \A serverName \in ServerInputs, tokenResp \in TokenResponseInputs :
                (upstream'.server = serverName /\ tokenResp.ok) =>
                   /\ OAuthClientCallbackHandler(serverName, tokenResp).status' = 200
                   /\ OAuthClientCallbackHandler(serverName, tokenResp).session'.AccessToken
                         = tokenResp.AccessToken

\* C39: a callback answered with 400 (no session for the server) or 502 (the
\* token exchange failed) leaves the stored session as it was, code verifier,
\* tokens and expiry included; after a 502 a further callback for the server
\* whose exchange succeeds is answered with 200 and stores the tokens.
C39_FailedCallbackFrame == [][C39_Step]_vars

\* a callback for an initiated session failed at the exchange: the code
\* verifier of the initiation is still stored
C39_VerifierKept ==
    /\ upstream.op = "OAuthClientCallbackHandler" /\ upstream.status = 502
    /\ SessionFound(upstream.server)
    /\ session.CodeVerifier = "v1"
    /\ session.AccessToken = Empty

\* ===== the audit service
\* Values passed as audit data: a string, a map[string]interface{}, a list,
\* a value of another type that marshals to a JSON object (a struct, a typed
\* map), and a value json.Marshal refuses (a channel, a func).
Str(s) == [t |-> "str", s |-> s]
Map(m) == [t |-> "map", m |-> m]
List(l) == [t |-> "list", l |-> l]
Typed(m) == [t |-> "typed", m |-> m]
Chan == [t |-> "chan"]

Redacted == Str("[REDACTED]")
sensitiveFields == {"access_token", "bearer_token", "password", "secret", "token"}

\* AuditService.filterSensitiveData, on the map itself
RECURSIVE filterSensitiveData(_)
filterSensitiveData(data) ==
    [key \in DOMAIN data |->
        IF key \in sensitiveFields THEN Redacted
        ELSE IF data[key].t = "map" THEN Map(filterSensitiveData(data[key].m))
        ELSE data[key]]

\* json.Marshal: whether it succeeds, and the JSON text as a tree
RECURSIVE Marshallable(_)
Marshallable(v) ==
    IF v.t = "str" THEN TRUE
    ELSE IF v.t = "chan" THEN FALSE
    ELSE IF v.t = "list" THEN \A i \in DOMAIN v.l : Marshallable(v.l[i])
    ELSE \A key \in DOMAIN v.m : Marshallable(v.m[key])

RECURSIVE Marshal(_)
Marshal(v) ==
    IF v.t = "str" THEN [t |-> "string", s |-> v.s]
    ELSE IF v.t = "list" THEN [t |-> "array", l |-> [i \in DOMAIN v.l |-> Marshal(v.l[i])]]
    ELSE [t |-> "object", m |-> [key \in DOMAIN v.m |-> Marshal(v.m[key])]]

EmptyObject == [t |-> "object", m |-> <<>>]

\* AuditService.marshalChanges
marshalChanges(changes) ==
    LET filtered == Map(filterSensitiveData(changes)) IN
    IF Marshallable(filtered) THEN Marshal(filtered) ELSE EmptyObject

\* the context of the call: without audit context, or with that of user u1
Background == ""
ContextInputs == {Background, "u1"}
NilError == ""

\* the row logAsync hands to its goroutine
AuditLog(ctx, entityID, operation, changes, success, errorMsg) ==
    [EntityID |-> entityID, Operation |-> operation, Changes |-> changes,
     Success |-> success, ErrorMsg |-> errorMsg,
     ActorID |-> IF ctx = Background THEN "system" ELSE ctx]

\* what a log operation does in the goroutine of its caller: the rows it
\* hands to logAsync, or a panic
Emitted(rows) == [panicked |-> FALSE, rows |-> rows]
Panicked == [panicked |-> TRUE, rows |-> <<>>]

LogCreate(ctx, entityID, data) ==
    Emitted(<<AuditLog(ctx, entityID, "CREATE", marshalChanges([created |-> data]), TRUE, "")>>)

LogUpdate(ctx, entityID, changes) ==
    Emitted(<<AuditLog(ctx, entityID, "UPDATE", marshalChanges(changes), TRUE, "")>>)

LogDelete(ctx, entityID) ==
    Emitted(<<AuditLog(ctx, entityID, "DELETE", marshalChanges(<<>>), TRUE, "")>>)

LogEnable(ctx, entityID, details) ==
    Emitted(<<AuditLog(ctx, entityID, "ENABLE", marshalChanges(details), TRUE, "")>>)

LogDisable(ctx, entityID, details) ==
    Emitted(<<AuditLog(ctx, entityID, "DISABLE", marshalChanges(details), TRUE, "")>>)

\* LogError evaluates err.Error() before logAsync: a nil err is a nil
\* dereference in the caller
LogError(ctx, entityID, operation, err) ==
    IF err = NilError THEN Panicked
    ELSE Emitted(<<AuditLog(ctx, entityID, operation, marshalChanges(<<>>), FALSE, err)>>)

\* ----- the payloads the log operations are called with
ChangesInputs ==
    {[name |-> Str("x")],
     [name |-> Str("x"), token |-> Str("t1")],
     [config |-> Map([password |-> Str("p1"), url |-> Str("u")])],
     [secret |-> Map([k |-> Str("v")])],
     [clients |-> List(<<Map([access_token |-> Str("t1")])>>)],
     [headers |-> Typed([bearer_token |-> Str("t1")])],
     [bad |-> Chan]}

DataInputs ==
    {Map(c) : c \in ChangesInputs}
      \cup {Str("x"), Typed([name |-> Str("x"), access_token |-> Str("t1")])}

AuditRoom == Len(auditLogs) + Len(auditQueue) < MaxAudit

\* a log operation is called: it returns once its rows are handed over
Audit(op, o) ==
    /\ ~o.panicked => AuditRoom
    /\ auditQueue' = auditQueue \o o.rows
    /\ outcome' = [op |-> op, panicked |-> o.panicked]
    /\ UNCHANGED <<auditLogs, users, oauthClients, clientTable, clientSeq, toolTable,
                   issuerVars, aclVars, upstreamVars>>

AuditCreate == \E data \in DataInputs : Audit("LogCreate", LogCreate(Background, "e1", data))
AuditUpdate == \E changes \in ChangesInputs : Audit("LogUpdate", LogUpdate("u1", "e1", changes))
AuditDelete == \E ctx \in ContextInputs : Audit("LogDelete", LogDelete(ctx, "e1"))
AuditEnable == Audit("LogEnable", LogEnable("u1", "e1", [count |-> Str("2")]))
AuditDisable == Audit("LogDisable", LogDisable("u1", "e1", [token |-> Str("t1")]))
AuditError ==
    \E err \in {NilError, "boom"} : Audit("LogError", LogError("u1", "e1", "CREATE", err))

Without(q, i) == SubSeq(q, 1, i - 1) \o SubSeq(q, i + 1, Len(q))

\* a goroutine of logAsync runs db.Create, which stores the row
AuditWrite ==
    /\ \E i \in DOMAIN auditQueue :
         /\ auditLogs' = Append(auditLogs, auditQueue[i])
         /\ auditQueue' = Without(auditQueue, i)
    /\ UNCHANGED <<outcome, users, oauthClients, clientTable, clientSeq, toolTable,
                   issuerVars, aclVars, upstreamVars>>

\* ... or db.Create fails or panics: a warning is printed, nothing is stored
AuditWriteFails ==
    /\ \E i \in DOMAIN auditQueue : auditQueue' = Without(auditQueue, i)
    /\ UNCHANGED <<auditLogs, outcome, users, oauthClients, clientTable, clientSeq,
                   toolTable, issuerVars, aclVars, upstreamVars>>

InitAudit == IssuerStart /\ profile = "clock" /\ AclIdle /\ GateIdle /\ UpstreamIdle

NextAudit ==
    \/ AuditCreate
    \/ AuditUpdate
    \/ AuditDelete
    \/ AuditEnable
    \/ AuditDisable
    \/ AuditError
    \/ AuditWrite
    \/ AuditWriteFails

SpecAudit == InitAudit /\ [][NextAudit]_vars

\* a JSON tree has, at some depth, a value other than "[REDACTED]" under a
\* sensitive key
RECURSIVE Leaks(_)
Leaks(json) ==
    IF json.t = "object"
    THEN \E key \in DOMAIN json.m :
            \/ key \in sensitiveFields /\ json.m[key] # Marshal(Redacted)
            \/ Leaks(json.m[key])
    ELSE IF json.t = "array" THEN \E i \in DOMAIN json.l : Leaks(json.l[i])
    ELSE FALSE

\* C24: no stored audit row has in its changes, at any depth, a value other
\* than "[REDACTED]" under access_token, bearer_token, password, secret or
\* token, whatever the shape of the payload.
C24_NoSecretStored ==
    \A i \in DOMAIN auditLogs : ~Leaks(auditLogs[i].Changes)

AuditOps == {"LogCreate", "LogUpdate", "LogDelete", "LogEnable", "LogDisable", "LogError"}

\* C25: every call of a log operation returns to its caller, whatever its
\* arguments: none ends in a panic of the caller.
C25_CallerNeverFails ==
    outcome.op \in AuditOps => ~outcome.panicked

\* ===== McpClientService
ClientNameInputs == {"cli1", "cli2"}

\* internal.GenerateAccessToken: a value never generated before
GeneratedToken(n) == <<"mt", n>>

Serviced(err, table, audit) == [err |-> err, table |-> table, audit |-> audit]

\* McpClientService.CreateClient: the INSERT is refused when the name is
\* taken (unique index); the audit row is emitted after the INSERT
CreateClient(name, allowList, allowedToolGroups) ==
    IF \E c \in clientTable : c.Name = name
    THEN Serviced(TRUE, clientTable, <<>>)
    ELSE Serviced(FALSE,
            clientTable \cup {[Name |-> name, AccessToken |-> GeneratedToken(clientSeq + 1),
                               AllowList |-> allowList,
                               AllowedToolGroups |-> allowedToolGroups]},
            LogCreate(Background, name,
                Map([description |-> Str(""), allowed_tool_groups |-> List(<<>>)])).rows)

DeleteClientAlwaysLogs(name) ==
    Serviced(FALSE, {c \in clientTable : c.Name # name}, LogDelete(Background, name).rows)

\* McpClientService.DeleteClient: Unscoped().Delete removes the rows;
\* LogDelete only when RowsAffected > 0
DeleteClient(name) ==
    Serviced(FALSE, {c \in clientTable : c.Name # name},
        IF \E c \in clientTable : c.Name = name
        THEN LogDelete(Background, name).rows ELSE <<>>)

ClientCreate ==
    /\ clientSeq < MaxClients
    /\ \E name \in ClientNameInputs, allowList \in {<<>>, <<ServerA>>} :
         LET o == CreateClient(name, allowList, <<>>) IN
         /\ o.audit # <<>> => AuditRoom
         /\ clientTable' = o.table
         /\ auditQueue' = auditQueue \o o.audit
         /\ outcome' = [op |-> "CreateClient", name |-> name, err |-> o.err]
    /\ clientSeq' = clientSeq + 1
    /\ UNCHANGED <<auditLogs, users, oauthClients, toolTable, issuerVars, aclVars,
                   upstreamVars>>

ClientDelete ==
    /\ \E name \in ClientNameInputs :
         LET o == DeleteClient(name) IN
         /\ o.audit # <<>> => AuditRoom
         /\ clientTable' = o.table
         /\ auditQueue' = auditQueue \o o.audit
         /\ outcome' = [op |-> "DeleteClient", name |-> name, err |-> o.err]
    /\ UNCHANGED <<clientSeq, auditLogs, users, oauthClients, toolTable, issuerVars,
                   aclVars, upstreamVars>>

\* a request to the proxy with a legacy token
ClientLookup ==
    /\ \E n \in 1..MaxClients :
         outcome' = [op |-> "GetClientByToken", name |-> "", 
                     err |-> ~GetClientByToken(GeneratedToken(n)).found]
    /\ UNCHANGED <<clientTable, clientSeq, auditLogs, auditQueue, users, oauthClients,
                   toolTable, issuerVars, aclVars, upstreamVars>>

InitClients == IssuerStart /\ profile = "clock" /\ AclIdle /\ GateIdle /\ UpstreamIdle

NextClients ==
    \/ ClientCreate
    \/ ClientDelete
    \/ ClientLookup
    \/ AuditWrite
    \/ AuditWriteFails

SpecClients == InitClients /\ [][NextClients]_vars

\* the step is a call of DeleteClient(name)
C29_Deletes(name) ==
    /\ clientTable' = DeleteClient(name).table
    /\ auditQueue' = auditQueue \o DeleteClient(name).audit
    /\ auditLogs' = auditLogs
    /\ outcome' = [op |-> "DeleteClient", name |-> name, err |-> DeleteClient(name).err]

C29_Step ==
    /\ \A name \in ClientNameInputs :
          C29_Deletes(name) =>
             /\ ~outcome'.err
             /\ \A c \in clientTable :
                   c.Name = name => ~GetClientByToken(c.AccessToken).found'
             /\ (\A c \in clientTable : c.Name # name) =>
                   /\ clientTable' = clientTable
                   /\ auditQueue' = auditQueue
    /\ \A n \in 1..clientSeq :
          ~GetClientByToken(GeneratedToken(n)).found =>
             ~GetClientByToken(GeneratedToken(n)).found'

\* C29: DeleteClient(name) returns no error; the token of the deleted client
\* is not found by GetClientByToken from then on; when no client has the
\* name, the call changes no stored client and emits no audit entry.
C29_DeleteRevokes == [][C29_Step]_vars

\* cli1 was created, deleted, and deleted again: its token is no longer
\* found and the one audit entry of the deletion is there
C29_DeletedTwice ==
    /\ outcome = [op |-> "DeleteClient", name |-> "cli1", err |-> FALSE]
    /\ clientSeq = 1
    /\ ~GetClientByToken(GeneratedToken(1)).found
    /\ Len(auditLogs) = 2 /\ auditLogs[2].Operation = "DELETE"
    /\ auditQueue = <<>>

\* ===== ToolGroup resolution of tools and prompts
PromptA1 == Canonical(ServerA, <<"p">>)
PromptA2 == Canonical(ServerA, <<"q">>)
PromptB1 == Canonical(ServerB, <<"p">>)

\* PromptResolver.ListPromptsByServer: the prompts registered for a server, or an error
ListPromptsByServer(serverName) ==
    IF serverName \in brokenServers THEN [err |-> TRUE, prompts |-> {}]
    ELSE IF serverName = ServerA THEN [err |-> FALSE, prompts |-> {PromptA1, PromptA2}]
    ELSE IF serverName = ServerB THEN [err |-> FALSE, prompts |-> {PromptB1}]
    ELSE [err |-> FALSE, prompts |-> {}]

\* ToolGroup.ResolveEffectivePrompts: the map is filled from included_prompts,
\* then from the prompts of the included servers, and the excluded prompts
\* are deleted from it last
ResolveEffectivePrompts(g) ==
    IF \E i \in DOMAIN g.IncludedServers : ListPromptsByServer(g.IncludedServers[i]).err
    THEN [err |-> TRUE, prompts |-> {}]
    ELSE [err |-> FALSE,
          prompts |-> (Range(g.IncludedPrompts)
                         \cup UNION {ListPromptsByServer(g.IncludedServers[i]).prompts :
                                       i \in DOMAIN g.IncludedServers})
                      \ Range(g.ExcludedPrompts)]

FullGroup(name, includedTools, includedServers, excludedTools, includedPrompts,
          excludedPrompts) ==
    [Name |-> name, IncludedTools |-> includedTools, IncludedServers |-> includedServers,
     ExcludedTools |-> excludedTools, IncludedPrompts |-> includedPrompts,
     ExcludedPrompts |-> excludedPrompts]

FullGroupInputs ==
    {FullGroup("g1", <<ToolA1>>, <<>>, <<ToolA1>>, <<PromptB1>>, <<PromptA1>>),
     FullGroup("g2", <<>>, <<ServerB>>, <<ToolB1>>, <<>>, <<PromptB1>>),
     FullGroup("g3", <<ToolB1>>, <<ServerA>>, <<ToolA2>>, <<PromptB1, PromptA1>>, <<PromptA2>>),
     FullGroup("g4", <<ToolB1, ToolB1>>, <<ServerA, ServerB>>, <<>>, <<>>, <<>>),
     FullGroup("g5", <<>>, <<ServerA, <<"c">>>>, <<ToolA1, ToolB1>>, <<PromptA2>>,
               <<PromptA1, PromptB1>>)}

ResolveTools ==
    /\ \E g \in toolGroups :
         outcome' = [op |-> "ResolveEffectiveTools", group |-> g,
                     err |-> ResolveEffectiveTools(g).err,
                     names |-> ResolveEffectiveTools(g).tools]
    /\ UNCHANGED <<users, oauthClients, clientTable, clientSeq, toolTable, auditLogs,
                   auditQueue, issuerVars, aclVars, upstreamVars>>

ResolvePrompts ==
    /\ \E g \in toolGroups :
         outcome' = [op |-> "ResolveEffectivePrompts", group |-> g,
                     err |-> ResolveEffectivePrompts(g).err,
                     names |-> ResolveEffectivePrompts(g).prompts]
    /\ UNCHANGED <<users, oauthClients, clientTable, clientSeq, toolTable, auditLogs,
                   auditQueue, issuerVars, aclVars, upstreamVars>>

InitGroups ==
    /\ IssuerStart /\ profile = "clock" /\ GateIdle /\ UpstreamIdle
    /\ mcpClient = [AllowList |-> <<>>, AllowedToolGroups |-> <<>>]
    /\ toolGroups \in SUBSET FullGroupInputs
    /\ brokenServers \in SUBSET {ServerA, ServerB}
    /\ verdict = NoVerdict

NextGroups == ResolveTools \/ ResolvePrompts

SpecGroups == InitGroups /\ [][NextGroups]_vars

\* the names a resolution can meet
C27_Names == {ToolA1, ToolA2, ToolB1, PromptA1, PromptA2, PromptB1, <<"t">>}

\* the servers a group includes have a name among their tools / prompts
C27_FromServer(g, n, prompts) ==
    \E i \in DOMAIN g.IncludedServers :
       IF prompts THEN n \in ListPromptsByServer(g.IncludedServers[i]).prompts
       ELSE n \in ListToolsByServer(g.IncludedServers[i]).tools

\* C27: a resolution that returns a set returns exactly the names that are
\* included, directly or through an included server, and are not excluded;
\* an excluded name is never in it. The same for prompts.
C27_EffectiveSet ==
    /\ (outcome.op = "ResolveEffectiveTools" /\ ~outcome.err) =>
          \A n \in C27_Names \cup outcome.names :
             n \in outcome.names <=>
                /\ \/ \E i \in DOMAIN outcome.group.IncludedTools :
                         outcome.group.IncludedTools[i] = n
                   \/ C27_FromServer(outcome.group, n, FALSE)
                /\ \A i \in DOMAIN outcome.group.ExcludedTools :
                      outcome.group.ExcludedTools[i] # n
    /\ (outcome.op = "ResolveEffectivePrompts" /\ ~outcome.err) =>
          \A n \in C27_Names \cup outcome.names :
             n \in outcome.names <=>
                /\ \/ \E i \in DOMAIN outcome.group.IncludedPrompts :
                         outcome.group.IncludedPrompts[i] = n
                   \/ C27_FromServer(outcome.group, n, TRUE)
                /\ \A i \in DOMAIN outcome.group.ExcludedPrompts :
                      outcome.group.ExcludedPrompts[i] # n

\* g3 was resolved: ToolA2 comes through server a and is excluded, ToolA1
\* and ToolB1 stay
C27_IncludedAndExcluded ==
    /\ outcome.op = "ResolveEffectiveTools" /\ ~outcome.err
    /\ outcome.group.Name = "g3"
    /\ C27_FromServer(outcome.group, ToolA2, FALSE)
    /\ outcome.names = {ToolA1, ToolB1}

\* ===== PKCE (util/oauth.go) on its own
PkceVerifierInputs == {"", "v1", "v2", "v3"}
PkceChallengeInputs ==
    {GeneratePKCEChallenge(v) : v \in PkceVerifierInputs}
        \cup {Verbatim(v) : v \in PkceVerifierInputs}
PkceMethodInputs == {"S256", "plain", "", "s256"}

PkceVerify ==
    /\ \E v \in PkceVerifierInputs, c \in PkceChallengeInputs, m \in PkceMethodInputs :
         outcome' = [op |-> "VerifyPKCE", verifier |-> v, challenge |-> c, method |-> m,
                     ok |-> VerifyPKCE(v, c, m)]
    /\ UNCHANGED <<users, oauthClients, clientTable, clientSeq, toolTable, auditLogs,
                   auditQueue, issuerVars, aclVars, upstreamVars>>

\* the client's side: the challenge is made from the verifier and sent with S256
PkceRoundTrip ==
    /\ \E v \in PkceVerifierInputs :
         outcome' = [op |-> "RoundTrip", verifier |-> v,
                     challenge |-> GeneratePKCEChallenge(v), method |-> "S256",
                     ok |-> VerifyPKCE(v, GeneratePKCEChallenge(v), "S256")]
    /\ UNCHANGED <<users, oauthClients, clientTable, clientSeq, toolTable, auditLogs,
                   auditQueue, issuerVars, aclVars, upstreamVars>>

InitPkce == IssuerStart /\ profile = "clock" /\ AclIdle /\ GateIdle /\ UpstreamIdle
NextPkce == PkceVerify \/ PkceRoundTrip
SpecPkce == InitPkce /\ [][NextPkce]_vars

\* C28: the challenge made from a verifier verifies against that verifier
\* under "S256"; under any other method the verification is false, whatever
\* the verifier and the challenge.
C28_RoundTripAndNoPlain ==
    /\ outcome.op = "RoundTrip" => outcome.ok
    /\ outcome.op = "VerifyPKCE" =>
          /\ outcome.method # "S256" => ~outcome.ok
          /\ (outcome.method = "S256"
                /\ outcome.challenge = GeneratePKCEChallenge(outcome.verifier)) => outcome.ok

\* "plain" with the verifier itself as the challenge was refused
C28_PlainRefused ==
    /\ outcome.op = "VerifyPKCE"
    /\ outcome.method = "plain"
    /\ outcome.verifier = "v1"
    /\ outcome.challenge = Verbatim(outcome.verifier)
    /\ ~outcome.ok

\* ===== OAuth client registration
\* util.GenerateClientID / util.GenerateClientSecret: the n-th generated value
GenerateClientID(n) == <<"c1", "c2", "c3", "c4">>[n]
GenerateClientSecret(n) == <<"s1", "s2", "s3", "s4">>[n]

\* RegisterClient as a call: the row it stores, and the client returned to the
\* caller, which carries the plaintext secret when confidential
Register ==
    /\ clientSeq < MaxClients
    /\ \E redirectURIs \in {<<>>, <<"https://a/cb">>}, scopes \in {<<>>, <<"read">>},
          isConfidential \in BOOLEAN :
         LET row == RegisterClient(GenerateClientID(clientSeq + 1),
                                   GenerateClientSecret(clientSeq + 1), "app",
                                   redirectURIs, scopes, isConfidential) IN
         /\ oauthClients' = oauthClients \cup {row}
         /\ outcome' = [op |-> "RegisterClient", ok |-> TRUE,
                        client |-> IF isConfidential
                                   THEN [row EXCEPT !.ClientSecret =
                                            GenerateClientSecret(clientSeq + 1)]
                                   ELSE row]
    /\ clientSeq' = clientSeq + 1
    /\ UNCHANGED <<users, clientTable, toolTable, auditLogs, auditQueue, issuerVars,
                   aclVars, upstreamVars>>

\* a token request authenticates a client
Authenticate ==
    /\ \E n \in 1..MaxClients, m \in 1..MaxClients :
         outcome' = [op |-> "ValidateClientCredentials",
                     ok |-> ValidateClientCredentials(GenerateClientID(n),
                                                      GenerateClientSecret(m)),
                     client |-> GetClient(GenerateClientID(n))]
    /\ UNCHANGED <<users, oauthClients, clientTable, clientSeq, toolTable, auditLogs,
                   auditQueue, issuerVars, aclVars, upstreamVars>>

InitRegister ==
    /\ IssuerStart /\ profile = "clock" /\ AclIdle /\ UpstreamIdle
    /\ users = UserInputs
    /\ oauthClients = {}
    /\ clientTable = {}
    /\ StoresIdle

NextRegister == Register \/ Authenticate

SpecRegister == InitRegister /\ [][NextRegister]_vars

\* C26: every stored OAuth client that is confidential holds a secret that is
\* a bcrypt hash (never a plaintext secret), and every stored public client
\* holds no secret and has token_endpoint_auth_method "none".
C26_ClientInvariant ==
    \A c \in oauthClients :
       /\ c.IsConfidential =>
             /\ c.ClientSecret # Empty
             /\ \E n \in 1..clientSeq : c.ClientSecret = Bcrypt(GenerateClientSecret(n))
       /\ ~c.IsConfidential =>
             /\ c.ClientSecret = Empty
             /\ c.TokenEndpointAuthMethod = "none"

\* ===== SearchService
\* Strings are sequences of characters.
DefaultMaxResults == 20

\* strings.ToLower
ToLower(str) ==
    [i \in DOMAIN str |-> IF str[i] = "A" THEN "a" ELSE IF str[i] = "B" THEN "b" ELSE str[i]]

\* strings.Fields: the maximal runs of non-space characters
RECURSIVE FieldsFrom(_, _, _)
FieldsFrom(str, cur, acc) ==
    IF str = <<>> THEN (IF cur = <<>> THEN acc ELSE Append(acc, cur))
    ELSE IF Head(str) = " "
         THEN FieldsFrom(Tail(str), <<>>, IF cur = <<>> THEN acc ELSE Append(acc, cur))
         ELSE FieldsFrom(Tail(str), Append(cur, Head(str)), acc)

Fields(str) == FieldsFrom(str, <<>>, <<>>)

At(str, sub, i) == i + Len(sub) - 1 <= Len(str) /\ SubSeq(str, i, i + Len(sub) - 1) = sub

\* strings.Contains, for a non-empty sub
Contains(str, sub) == \E i \in 1..Len(str) : At(str, sub, i)

\* strings.Count: non-overlapping instances of a non-empty sub, from the left
RECURSIVE CountFrom(_, _, _)
CountFrom(str, sub, i) ==
    IF i + Len(sub) - 1 > Len(str) THEN 0
    ELSE IF At(str, sub, i) THEN 1 + CountFrom(str, sub, i + Len(sub))
    ELSE CountFrom(str, sub, i + 1)

Count(str, sub) == CountFrom(str, sub, 1)

\* the score of one term
termScore(nameLower, descLower, term) ==
    (IF nameLower = term THEN 10 ELSE IF Contains(nameLower, term) THEN 5 ELSE 0)
      + (IF Contains(descLower, term) THEN Count(descLower, term) ELSE 0)

RECURSIVE SumScores(_, _, _)
SumScores(nameLower, descLower, terms) ==
    IF terms = <<>> THEN 0
    ELSE termScore(nameLower, descLower, Head(terms))
           + SumScores(nameLower, descLower, Tail(terms))

\* SearchService.calculateScore: the float64 totalScore / len(terms) is kept
\* as the fraction <<totalScore, len(terms)>>; with no term it is 0
calculateScore(name, description, terms) ==
    IF Len(terms) > 0
    THEN <<SumScores(ToLower(name), ToLower(description), terms), Len(terms)>>
    ELSE <<0, 1>>

\* a.Score < b.Score
Less(a, b) == a[1] * b[2] < b[1] * a[2]
Positive(a) == a[1] > 0

sortByScoreNone(results) == results

\* the inner loop of sortByScore: for j := 0; j < n-i-1; j++
RECURSIVE Bubble(_, _, _)
Bubble(results, j, stop) ==
    IF j > stop THEN results
    ELSE IF Less(results[j].Score, results[j + 1].Score)
         THEN Bubble([results EXCEPT ![j] = results[j + 1], ![j + 1] = results[j]],
                     j + 1, stop)
         ELSE Bubble(results, j + 1, stop)

\* the outer loop: for i := 0; i < n-1; i++
RECURSIVE BubblePasses(_, _)
BubblePasses(results, i) ==
    IF i >= Len(results) - 1 THEN results
    ELSE BubblePasses(Bubble(results, 1, Len(results) - i - 1), i + 1)

\* SearchService.sortByScore
sortByScore(results) == BubblePasses(results, 0)

SearchOptions(query, maxResults, serverNames, onlyEnabled) ==
    [Query |-> query, MaxResults |-> maxResults, ServerNames |-> serverNames,
     OnlyEnabled |-> onlyEnabled]

\* the WHERE clauses of the query
Selected(row, opts) ==
    /\ opts.OnlyEnabled => row.Enabled
    /\ Len(opts.ServerNames) > 0 => row.ServerName \in Range(opts.ServerNames)

SearchResult(row, terms) ==
    [ToolName |-> Canonical(row.ServerName, row.Name), ServerName |-> row.ServerName,
     Description |-> row.Description,
     Score |-> calculateScore(row.Name, row.Description, terms), Enabled |-> row.Enabled]

\* the loop over rawResults: the selected rows with a score above 0, in order
RECURSIVE Scored(_, _, _)
Scored(rows, opts, terms) ==
    IF rows = <<>> THEN <<>>
    ELSE IF Selected(Head(rows), opts)
              /\ Positive(calculateScore(Head(rows).Name, Head(rows).Description, terms))
         THEN <<SearchResult(Head(rows), terms)>> \o Scored(Tail(rows), opts, terms)
         ELSE Scored(Tail(rows), opts, terms)

\* SearchService.SearchTools
SearchTools(opts) ==
    IF opts.Query = <<>> THEN [err |-> TRUE, results |-> <<>>]
    ELSE LET maxResults == IF opts.MaxResults <= 0 THEN DefaultMaxResults
                           ELSE opts.MaxResults
             terms == Fields(ToLower(opts.Query))
             results == sortByScore(Scored(toolTable, opts, terms))
         IN  [err |-> FALSE,
              results |-> IF Len(results) > maxResults THEN SubSeq(results, 1, maxResults)
                          ELSE results]

\* ----- the rows of table tools
Tool(name, description, serverName, enabled) ==
    [Name |-> name, Description |-> description, ServerName |-> serverName,
     Enabled |-> enabled]

ToolRows ==
    <<Tool(<<"a", "b">>, <<"a">>, ServerA, TRUE),
      Tool(<<"b">>, <<"a", " ", "A">>, ServerB, TRUE),
      Tool(<<"A">>, <<>>, ServerA, TRUE),
      Tool(<<"b">>, <<>>, ServerB, TRUE),
      Tool(<<"a", "b">>, <<"b", " ", "a">>, ServerA, FALSE),
      Tool(<<"a">>, <<"a">>, ServerB, TRUE)>>

\* the first n rows registered, starting at row k + 1 of ToolRows
Catalogue(k, n) == [i \in 1..n |-> ToolRows[((i - 1 + k) % Len(ToolRows)) + 1]]

QueryInputs == {<<>>, <<"a">>, <<"A", " ", "b">>, <<"c">>, <<" ">>}
MaxResultsInputs == {-1, 0, 2}
SearchOptionsInputs ==
    {SearchOptions(q, m, sn, oe) :
        q \in QueryInputs, m \in MaxResultsInputs, sn \in {<<>>, <<ServerA>>},
        oe \in BOOLEAN}

\* a tool is registered
AddTool ==
    /\ Len(toolTable) < MaxTools
    /\ \E k \in {0, 3} :
         /\ toolTable = Catalogue(k, Len(toolTable))
         /\ toolTable' = Catalogue(k, Len(toolTable) + 1)
    /\ outcome' = [op |-> "RegisterTool"]
    /\ UNCHANGED <<users, oauthClients, clientTable, clientSeq, auditLogs, auditQueue,
                   issuerVars, aclVars, upstreamVars>>

Search ==
    /\ \E opts \in SearchOptionsInputs :
         LET found == SearchTools(opts) IN
         outcome' = [op |-> "SearchTools", opts |-> opts, err |-> found.err,
                     results |-> found.results]
    /\ UNCHANGED <<users, oauthClients, clientTable, clientSeq, toolTable, auditLogs,
                   auditQueue, issuerVars, aclVars, upstreamVars>>

InitSearch == IssuerStart /\ profile = "clock" /\ AclIdle /\ GateIdle /\ UpstreamIdle
NextSearch == AddTool \/ Search
SpecSearch == InitSearch /\ [][NextSearch]_vars

\* the rows of the table that match the options of the last search
C30_Matching ==
    {i \in DOMAIN toolTable :
        /\ Selected(toolTable[i], outcome.opts)
        /\ Positive(SearchResult(toolTable[i], Fields(ToLower(outcome.opts.Query))).Score)}

C30_ResultOf(i) == SearchResult(toolTable[i], Fields(ToLower(outcome.opts.Query)))

C30_Limit == IF outcome.opts.MaxResults <= 0 THEN 20 ELSE outcome.opts.MaxResults

\* C30: a search returns at most MaxResults results (20 when MaxResults <= 0),
\* each with a score above 0, in non-increasing score order, and they are the
\* top of all matching tools: no matching tool left out has a higher score
\* than a returned one, and nothing is left out while there is room. An
\* empty query returns an error and no results.
C30_TopOfSorted ==
    outcome.op = "SearchTools" =>
       IF outcome.opts.Query = <<>> THEN outcome.err /\ outcome.results = <<>>
       ELSE /\ ~outcome.err
            /\ Len(outcome.results) <= C30_Limit
            /\ \A i \in DOMAIN outcome.results : Positive(outcome.results[i].Score)
            /\ \A i, j \in DOMAIN outcome.results :
                  i < j => ~Less(outcome.results[i].Score, outcome.results[j].Score)
            /\ Len(outcome.results) =
                  (IF Cardinality(C30_Matching) < C30_Limit
                   THEN Cardinality(C30_Matching) ELSE C30_Limit)
            /\ \A r \in {C30_ResultOf(i) : i \in C30_Matching} \cup Range(outcome.results) :
                  LET inRes == Cardinality({i \in DOMAIN outcome.results :
                                               outcome.results[i] = r})
                      inAll == Cardinality({i \in C30_Matching : C30_ResultOf(i) = r})
                  IN  /\ inRes <= inAll
                      /\ inRes < inAll =>
                            \A k \in DOMAIN outcome.results :
                               ~Less(outcome.results[k].Score, r.Score)

\* more than 20 tools matched a search with MaxResults 0: 20 came back, the
\* best first, and the matches left out score no more than the last of them
C30_CappedAtDefault ==
    /\ outcome.op = "SearchTools" /\ ~outcome.err
    /\ outcome.opts.MaxResults = 0
    /\ Cardinality(C30_Matching) > 20
    /\ Len(outcome.results) = 20
    /\ Less(outcome.results[20].Score, outcome.results[1].Score)
    /\ \E i \in C30_Matching : C30_ResultOf(i).Score = outcome.results[20].Score

\* ===== OAuthClientService, one database or HTTP operation at a time
\* There is no lock and no transaction around a call: goroutines interleave
\* between the First, the request to the upstream and the Save or Create.
Row(id, s) == [ID |-> id, Session |-> s]

\* db.Where("mcp_server_name = ?", serverName).First(&session)
First(serverName) ==
    LET live == {r \in sessionTable :
                    r.Session.McpServerName = serverName /\ ~r.Session.Deleted} IN
    IF live = {} THEN [found |-> FALSE, row |-> Row(0, NoSession)]
    ELSE [found |-> TRUE, row |-> CHOOSE r \in live : TRUE]

NextID == IF sessionTable = {} THEN 1
          ELSE 1 + (CHOOSE n \in {r.ID : r \in sessionTable} :
                       \A r \in sessionTable : r.ID <= n)

CreateNoIndex(row) ==
    [err |-> FALSE, table |-> sessionTable \cup {Row(NextID, row.Session)}]

\* db.Create(session): refused by the unique index on mcp_server_name when a
\* row, soft-deleted or not, holds the name
Create(row) ==
    IF \E r \in sessionTable : r.Session.McpServerName = row.Session.McpServerName
    THEN [err |-> TRUE, table |-> sessionTable]
    ELSE [err |-> FALSE, table |-> sessionTable \cup {Row(NextID, row.Session)}]

Replaced(row) == {r \in sessionTable : r.ID # row.ID} \cup {row}

\* db.Save(&session) of a row with its ID: the tables it can leave. The
\* UPDATE writes every column of the live row with that ID. When the row has
\* been soft-deleted meanwhile the UPDATE matches nothing, and gorm either
\* leaves it at that or writes the row with an upsert, depending on its version.
Save(row) ==
    IF \E r \in sessionTable : r.ID = row.ID /\ ~r.Session.Deleted
    THEN {Replaced(row)}
    ELSE IF \E r \in sessionTable : r.ID = row.ID
    THEN {sessionTable, Replaced(row)}
    ELSE {sessionTable}

Finished(c, status, token, err) ==
    [c EXCEPT !.pc = "done", !.status = status, !.token = token, !.err = err]

\* GetOrRefreshUpstreamToken up to the refresh: First and NeedsRefresh
RaceGetRead(p) ==
    /\ calls[p].pc = "idle"
    /\ \E serverName \in ServerInputs :
         LET f == First(serverName)
             c == [IdleCall EXCEPT !.op = "GetOrRefreshUpstreamToken",
                                   !.server = serverName, !.found = f.found,
                                   !.local = f.row]
         IN  calls' = [calls EXCEPT ![p] =
                IF ~f.found THEN Finished(c, 0, Empty, "no OAuth session found for server")
                ELSE IF ~NeedsRefresh(f.row.Session)
                THEN Finished(c, 0, f.row.Session.AccessToken, "")
                ELSE [c EXCEPT !.pc = "refresh", !.needed = TRUE]]
    /\ UNCHANGED <<sessionTable, authServer, session, clock, upstream, issuerVars, aclVars,
                   gateVars>>

\* the upstream takes a refresh token under its policy: "static" issues no
\* new refresh token, "rotate" issues one and takes only the one in force,
\* "lenient" issues one and still takes the earlier ones
Accepts(refreshToken) ==
    authServer.policy \in {"static", "lenient"} \/ refreshToken = authServer.latest

\* RefreshAccessToken and the assignments to the local session
RaceRefresh(p) ==
    /\ calls[p].pc = "refresh"
    /\ IF ~Accepts(calls[p].local.Session.RefreshToken)
       THEN /\ calls' = [calls EXCEPT ![p] =
                           Finished(@, 0, Empty, "failed to refresh access token")]
            /\ UNCHANGED authServer
       ELSE /\ authServer.issued < MaxIssued
            /\ \E expiresIn \in {0, 10} :
                 LET n == authServer.issued + 1
                     tokenResp == TokenResponse(<<"up", n>>,
                                     IF authServer.policy = "static" THEN Empty
                                     ELSE <<"ur", n>>, expiresIn)
                 IN  /\ authServer' = [authServer EXCEPT
                                          !.issued = n,
                                          !.latest = IF tokenResp.RefreshToken # Empty
                                                     THEN tokenResp.RefreshToken ELSE @]
                     /\ calls' = [calls EXCEPT
                           ![p].pc = "save",
                           ![p].local.Session.AccessToken = tokenResp.AccessToken,
                           ![p].local.Session.HasExpiry = TRUE,
                           ![p].local.Session.ExpiresAt = clock + tokenResp.ExpiresIn,
                           ![p].local.Session.TokenType = tokenResp.TokenType,
                           ![p].local.Session.RefreshToken =
                               IF tokenResp.RefreshToken # Empty
                               THEN tokenResp.RefreshToken ELSE @]
    /\ UNCHANGED <<sessionTable, session, clock, upstream, issuerVars, aclVars, gateVars>>

\* db.Save(&session) and the return of the new access token
RaceSave(p) ==
    /\ calls[p].pc = "save"
    /\ sessionTable' \in Save(calls[p].local)
    /\ calls' = [calls EXCEPT ![p] =
                    Finished(@, 0, calls[p].local.Session.AccessToken, "")]
    /\ UNCHANGED <<authServer, session, clock, upstream, issuerVars, aclVars, gateVars>>

\* OAuthClientInitiateHandler up to the First of StoreUpstreamSession
RaceInitRead(p) ==
    /\ calls[p].pc = "idle"
    /\ \E serverName \in ServerInputs :
         LET f == First(serverName)
             fresh == [NoSession EXCEPT !.McpServerName = serverName,
                                        !.CodeVerifier = "v1", !.ClientID = "mcpjungle",
                                        !.Scope = "read write",
                                        !.TokenEndpoint = "https://up/token"]
         IN  calls' = [calls EXCEPT ![p] =
                [IdleCall EXCEPT !.op = "OAuthClientInitiateHandler",
                                 !.server = serverName, !.found = f.found,
                                 !.pc = IF f.found THEN "initSave" ELSE "initCreate",
                                 !.local = Row(f.row.ID, fresh)]]
    /\ UNCHANGED <<sessionTable, authServer, session, clock, upstream, issuerVars, aclVars,
                   gateVars>>

\* StoreUpstreamSession: db.Create(session)
RaceInitCreate(p) ==
    /\ calls[p].pc = "initCreate"
    /\ sessionTable' = Create(calls[p].local).table
    /\ calls' = [calls EXCEPT ![p] =
                    Finished(@, IF Create(calls[p].local).err THEN 500 ELSE 200, Empty, "")]
    /\ UNCHANGED <<authServer, session, clock, upstream, issuerVars, aclVars, gateVars>>

\* StoreUpstreamSession: session.ID = existing.ID; db.Save(session)
RaceInitSave(p) ==
    /\ calls[p].pc = "initSave"
    /\ sessionTable' \in Save(calls[p].local)
    /\ calls' = [calls EXCEPT ![p] = Finished(@, 200, Empty, "")]
    /\ UNCHANGED <<authServer, session, clock, upstream, issuerVars, aclVars, gateVars>>

\* OAuthClientRevokeHandler: DeleteUpstreamSession sets deleted_at
RaceRevoke ==
    /\ \E serverName \in ServerInputs :
         /\ First(serverName).found
         /\ sessionTable' = Replaced([First(serverName).row EXCEPT !.Session.Deleted = TRUE])
    /\ UNCHANGED <<calls, authServer, session, clock, upstream, issuerVars, aclVars,
                   gateVars>>

\* the caller has its answer
RaceReturn(p) ==
    /\ calls[p].pc = "done"
    /\ calls' = [calls EXCEPT ![p] = IdleCall]
    /\ UNCHANGED <<sessionTable, authServer, session, clock, upstream, issuerVars, aclVars,
                   gateVars>>

\* the refresh token the session of UpstreamServer starts with
OriginalRefresh == <<"ur", 0>>

\* no session yet, or a session of UpstreamServer whose token has expired
InitRace ==
    /\ IssuerStart /\ profile = "clock" /\ AclIdle /\ GateIdle
    /\ session = NoSession /\ clock = 0 /\ upstream = NoCall
    /\ calls = [p \in Procs |-> IdleCall]
    /\ sessionTable \in
          {{}, {Row(1, [NoSession EXCEPT !.McpServerName = UpstreamServer,
                                         !.AccessToken = <<"up", 0>>,
                                         !.RefreshToken = OriginalRefresh,
                                         !.TokenType = "Bearer",
                                         !.HasExpiry = TRUE, !.ExpiresAt = 0,
                                         !.ClientID = "mcpjungle", !.Scope = "read",
                                         !.TokenEndpoint = "https://up/token"])}}
    /\ authServer \in [policy : {"static", "rotate", "lenient"}, issued : {0},
                       latest : {OriginalRefresh}]

NextRace ==
    \/ \E p \in Procs : RaceGetRead(p)
    \/ \E p \in Procs : RaceRefresh(p)
    \/ \E p \in Procs : RaceSave(p)
    \/ \E p \in Procs : RaceInitRead(p)
    \/ \E p \in Procs : RaceInitCreate(p)
    \/ \E p \in Procs : RaceInitSave(p)
    \/ RaceRevoke
    \/ \E p \in Procs : RaceReturn(p)

SpecRace == InitRace /\ [][NextRace]_vars

\* every goroutine has completed a GetOrRefreshUpstreamToken for the server
\* that found the session in need of a refresh
C31_AllRefreshed ==
    \A p \in Procs :
       /\ calls[p].pc = "done" /\ calls[p].op = "GetOrRefreshUpstreamToken"
       /\ calls[p].server = UpstreamServer /\ calls[p].needed

\* C31: once the concurrent calls of GetOrRefreshUpstreamToken that found
\* the session in need of a refresh have completed, each has returned a
\* token, the stored access token is one of those returned, and the stored
\* refresh token is the one the upstream issued last (the original one when
\* it issued none).
C31_Converges ==
    (C31_AllRefreshed /\ First(UpstreamServer).found) =>
       /\ \A p \in Procs : calls[p].err = "" /\ calls[p].token # Empty
       /\ \E p \in Procs : First(UpstreamServer).row.Session.AccessToken = calls[p].token
       /\ First(UpstreamServer).row.Session.RefreshToken = authServer.latest

\* at most one live session per server name
C34_AtMostOne ==
    \A r1, r2 \in sessionTable :
       (r1.Session.McpServerName = r2.Session.McpServerName
          /\ ~r1.Session.Deleted /\ ~r2.Session.Deleted) => r1 = r2

\* the live session of a name keeps its ID
C34_Identity ==
    \A r1 \in sessionTable, r2 \in sessionTable' :
       (r1.Session.McpServerName = r2.Session.McpServerName
          /\ ~r1.Session.Deleted /\ ~r2.Session.Deleted) => r1.ID = r2.ID

\* C34: in every reachable state there is at most one live session per server
\* name, and no step, an initiation for a name that has a session included,
\* gives the live session of a name another ID (the session is updated in
\* place), also with initiations for the same name in flight together.
C34_OneSessionPerName == []C34_AtMostOne /\ [][C34_Identity]_vars

\* two initiations for the server whose session existed have both completed:
\* the one row is still row 1 and holds the new code verifier
C34_UpdatedInPlace ==
    /\ \A p \in Procs :
          /\ calls[p].pc = "done" /\ calls[p].op = "OAuthClientInitiateHandler"
          /\ calls[p].server = UpstreamServer /\ calls[p].found /\ calls[p].status = 200
    /\ First(UpstreamServer).found
    /\ First(UpstreamServer).row.ID = 1
    /\ First(UpstreamServer).row.Session.CodeVerifier = "v1"
    /\ Cardinality(sessionTable) = 1

\* ===== token validity and the sweep of expired rows
\* C36: every stored access token and refresh token is valid (IsValid) if
\* and only if it is not revoked and now < expires_at; at now = expires_at it
\* is not valid.
C36_ValidIffUnexpired ==
    /\ \A i \in DOMAIN accessTokens :
          TokenIsValid(accessTokens[i])
             <=> (~accessTokens[i].Revoked /\ now < accessTokens[i].ExpiresAt)
    /\ \A j \in DOMAIN refreshTokens :
          TokenIsValid(refreshTokens[j])
             <=> (~refreshTokens[j].Revoked /\ now < refreshTokens[j].ExpiresAt)

\* the step is a run of CleanupExpiredTokens
C37_Sweep == Ready /\ last'.op = "cleanup"

\* what the sweep does to a table of tokens: the rows with expires_at < now
\* and revoked = false are removed, the others are as they were, and a row
\* that was valid is valid
C37_Swept(before, after) ==
    /\ DOMAIN after = DOMAIN before
    /\ \A i \in DOMAIN before :
          /\ (before[i].ExpiresAt < now /\ ~before[i].Revoked /\ ~before[i].Deleted)
                => after[i] = [before[i] EXCEPT !.Deleted = TRUE]
          /\ (before[i].Revoked \/ ~(before[i].ExpiresAt < now)) => after[i] = before[i]
          /\ (~before[i].Deleted /\ ~before[i].Revoked /\ ~(now > before[i].ExpiresAt))
                => (~after[i].Deleted /\ ~after[i].Revoked /\ ~(now > after[i].ExpiresAt))

C37_Step ==
    C37_Sweep =>
       /\ now' = now
       /\ \A c \in authCodes : c \in authCodes' <=> ~(c.ExpiresAt < now)
       /\ authCodes' \subseteq authCodes
       /\ C37_Swept(accessTokens, accessTokens')
       /\ C37_Swept(refreshTokens, refreshTokens')

\* C37: a run of CleanupExpiredTokens removes exactly the authorization codes
\* with expires_at < now and the access and refresh tokens with expires_at <
\* now that are not revoked; revoked tokens and unexpired codes and tokens stay
\* as they were, and a token that was valid before the run is valid after it.
C37_SweepFrame == [][C37_Step]_vars

\* a sweep has run past the expiry of two access tokens: the revoked one is
\* still there, the other is removed
C37_RevokedRetained ==
    /\ last.op = "cleanup"
    /\ \E i, j \in DOMAIN accessTokens :
          /\ accessTokens[i].Revoked /\ accessTokens[i].ExpiresAt < now
          /\ ~accessTokens[i].Deleted
          /\ ~accessTokens[j].Revoked /\ accessTokens[j].Deleted

\* ===== the resolver: tool names without separator, and the order of the groups
\* C35: CheckHasToolAccess returns an error for every tool name without "__",
\* whatever the client's allowed_tool_groups and allow_list.
C35_SeparatorRequired ==
    \A toolName \in ToolNameInputs :
       ~splitServerToolName(toolName).ok => CheckHasToolAccess(mcpClient, toolName).err

\* the client with its allowed_tool_groups in the order f
C38_Reordered(f) ==
    [mcpClient EXCEPT !.AllowedToolGroups =
        [i \in DOMAIN mcpClient.AllowedToolGroups |-> mcpClient.AllowedToolGroups[f[i]]]]

\* C38 as stated: CheckHasToolAccess gives the same outcome for every order
\* of the client's allowed_tool_groups.
C38_OrderIndependent ==
    \A toolName \in ToolNameInputs :
       \A f \in Permutations(DOMAIN mcpClient.AllowedToolGroups) :
          CheckHasToolAccess(C38_Reordered(f), toolName)
             = CheckHasToolAccess(mcpClient, toolName)

\* C38, amended: CheckHasToolAccess gives the same outcome for every order of
\* the client's allowed_tool_groups when no listed, existing group fails to
\* resolve, listed groups that do not exist included; when one fails, every
\* order gives either an error or allow, and never deny.
C38_OrderIndependentUnlessResolveFails ==
    \A toolName \in ToolNameInputs :
       \A f \in Permutations(DOMAIN mcpClient.AllowedToolGroups) :
          IF \A i \in DOMAIN mcpClient.AllowedToolGroups : ~GroupFails(mcpClient, i)
          THEN CheckHasToolAccess(C38_Reordered(f), toolName)
                  = CheckHasToolAccess(mcpClient, toolName)
          ELSE \/ CheckHasToolAccess(C38_Reordered(f), toolName).err
               \/ CheckHasToolAccess(C38_Reordered(f), toolName).allowed

\* a tool was allowed through the second listed group, the first listed group
\* being one that does not exist
C38_AllowedPastMissing ==
    /\ verdict.op = "CheckHasToolAccess" /\ verdict.allowed
    /\ Len(mcpClient.AllowedToolGroups) = 2
    /\ ~GetToolGroup(mcpClient.AllowedToolGroups[1]).found
    /\ GroupReaches(mcpClient, 2, verdict.name)

\* ===== naming and splitting (splitServerToolName) on its own
MaxServerLen == 2
MaxToolLen == 3

\* the strings over the characters cs of length at most n
StringsOver(cs, n) == UNION {[1..k -> cs] : k \in 0..n}

\* strings.Contains(name, "__")
HasSeparator(name) ==
    \E i \in 1..(Len(name) - 1) : name[i] = "_" /\ name[i + 1] = "_"

\* server names: no "__" inside; tool-local names: any
SplitServerInputs == {n \in StringsOver({"a", "_"}, MaxServerLen) : ~HasSeparator(n)}
SplitToolInputs == StringsOver({"t", "_"}, MaxToolLen)
SplitRawInputs == {n \in StringsOver({"a", "_", "t"}, MaxToolLen) : ~HasSeparator(n)}

\* the canonical name of a tool: server + "__" + tool
CanonicalName(serverName, toolName) == serverName \o <<"_", "_">> \o toolName

\* a canonical name is made and split again
SplitCanonical ==
    /\ \E serverName \in SplitServerInputs, toolName \in SplitToolInputs :
         outcome' = [op |-> "SplitCanonical", server |-> serverName, tool |-> toolName,
                     name |-> CanonicalName(serverName, toolName),
                     split |-> splitServerToolName(CanonicalName(serverName, toolName))]
    /\ UNCHANGED <<users, oauthClients, clientTable, clientSeq, toolTable, auditLogs,
                   auditQueue, issuerVars, aclVars, upstreamVars>>

\* a name without separator is split
SplitRaw ==
    /\ \E name \in SplitRawInputs :
         outcome' = [op |-> "SplitRaw", server |-> <<>>, tool |-> <<>>, name |-> name,
                     split |-> splitServerToolName(name)]
    /\ UNCHANGED <<users, oauthClients, clientTable, clientSeq, toolTable, auditLogs,
                   auditQueue, issuerVars, aclVars, upstreamVars>>

InitSplit == IssuerStart /\ profile = "clock" /\ AclIdle /\ GateIdle /\ UpstreamIdle
NextSplit == SplitCanonical \/ SplitRaw
SpecSplit == InitSplit /\ [][NextSplit]_vars

\* C40: splitting server + "__" + tool gives (server, tool, true) for every
\* server name without "__" and every tool-local name; splitting a name
\* without "__" gives ("", "", false).
C40_SplitInvertsNaming ==
    /\ outcome.op = "SplitCanonical" =>
          outcome.split = [serverName |-> outcome.server, toolName |-> outcome.tool,
                           ok |-> TRUE]
    /\ outcome.op = "SplitRaw" =>
          outcome.split = [serverName |-> <<>>, toolName |-> <<>>, ok |-> FALSE]

====
